---- MODULE Spec2Model ----
(***************************************************************************)
(* Flik: the modal command processor (App.ProcessKeyPress and the three    *)
(* per-mode dispatchers) and the global-hotkey listener of src/app.go.     *)
(*                                                                         *)
(* Strings that the code parses or formats (numberBuffer, key tokens) are  *)
(* sequences of one-character strings, so that strconv.Atoi and            *)
(* strconv.Itoa are modelled by what they do to the characters.            *)
(***************************************************************************)
EXTENDS Integers, Sequences, FiniteSets, TLC

(***************************************************************************)
(* Bounds of the model.                                                    *)
(***************************************************************************)
\* the clock of the listener model stops at MaxTime milliseconds
MaxTime == 800
\* the clock of the setup model stops at MaxElapsed milliseconds
MaxElapsed == 45000
\* the listening loop handles at most MaxKeydowns key-down events
MaxKeydowns == 1
\* the listening loop panics at most MaxPanics times
MaxPanics == 2
\* getCurrentDisplay is given at most MaxDisplays displays
MaxDisplays == 2
\* digit tokens sent by the front end are "0" .. MaxDigit
MaxDigit == 1
\* at most MaxTyped tokens that parse as numbers are passed in a row
MaxTyped == 2

VARIABLES
    currentMode,    \* App.currentMode
    numberBuffer,   \* App.numberBuffer, a sequence of characters
    typed,          \* history: the tokens accepted as numbers since the last
                    \* other token, in the order they were passed
    last            \* history: the last ProcessKeyPress call, with its input,
                    \* the state it started from and the side effects it requested

VARIABLES
    gpc,            \* per goroutine: the statement of ProcessKeyPress it is at
    gkey,           \* per goroutine: the key argument of its call
    gloc,           \* per goroutine: its locals (count, loop index, values read)
    callLog,        \* the collaborator and window calls made, in order
    start           \* history: currentMode and numberBuffer before the two calls

VARIABLES
    now,            \* the clock read by time.Now(), in milliseconds
    lastHotkeyTime, \* App.lastHotkeyTime
    alwaysOnTop,    \* the window's always-on-top flag (runtime.WindowSetAlwaysOnTop)
    resets,         \* the wake-up times of the goroutines of lines 262-265
    lastAccepted,   \* history: when the handler body last ran
    lastEvent       \* history: the last key-down event the listener received

VARIABLES
    ctx,            \* App.ctx is set (TRUE) or nil (FALSE)
    hotkeyStatus,   \* App.hotkeyStatus
    hotkeyInstance, \* App.hotkeyInstance: "nil" or the registered handle "hk"
    hotkeyShutdown, \* App.hotkeyShutdown: the number of values in the channel
    setup,          \* the goroutine of setupHotkey: statement, attempt, retryDelay
    elapsed,        \* milliseconds since setupCtx was created (line 111)
    perm,           \* the permission-check goroutine and permissionsChan
    request,        \* the goroutine of the delayed permission request
    listener,       \* startHotkeyListener: the statement it is at, and its caller
    sd,             \* per caller of shutdownHotkey: the statement it is at
    alive,          \* the process is running
    hist            \* history: calls made, waits done, dialogs shown, statuses

VARIABLES
    displays,       \* the result of GetConfiguration passed to getCurrentDisplay
    mouse,          \* the result of GetCurrentMousePosition
    chosen          \* the index of the display getCurrentDisplay returned, 0: none yet

keyVars == <<currentMode, numberBuffer, typed, last>>
dispVars == <<displays, mouse, chosen>>
lifeRest == <<ctx, hotkeyStatus, hotkeyInstance, hotkeyShutdown, setup, elapsed,
              perm, request, sd, alive, hist>>
lifeVars == <<ctx, hotkeyStatus, hotkeyInstance, hotkeyShutdown, setup, elapsed,
              perm, request, listener, sd, alive, hist>>
concVars == <<gpc, gkey, gloc, callLog, start>>
listenerVars == <<now, lastHotkeyTime, alwaysOnTop, resets, lastAccepted, lastEvent>>
vars == <<currentMode, numberBuffer, typed, last,
          gpc, gkey, gloc, callLog, start,
          now, lastHotkeyTime, alwaysOnTop, resets, lastAccepted, lastEvent,
          ctx, hotkeyStatus, hotkeyInstance, hotkeyShutdown, setup, elapsed,
          perm, request, listener, sd, alive, hist,
          displays, mouse, chosen>>

(***************************************************************************)
(* AppMode (src/app.go:38-42)                                              *)
(***************************************************************************)
AppModeMain == "main"
AppModeWindow == "window"
AppModeDisplay == "display"
AppModes == {AppModeMain, AppModeWindow, AppModeDisplay}

(***************************************************************************)
(* LogLevel (src/app.go:61-65)                                             *)
(***************************************************************************)
LogLevelInfo == 0
LogLevelWarn == 1
LogLevelError == 2

(***************************************************************************)
(* strconv.Atoi and strconv.Itoa on character sequences.                   *)
(***************************************************************************)
DigitChars == <<"0", "1", "2", "3", "4", "5", "6", "7", "8", "9">>

IsDigitChar(c) == \E i \in 1..10 : DigitChars[i] = c

DigitVal(c) == (CHOOSE i \in 1..10 : DigitChars[i] = c) - 1

RECURSIVE ParseDigits(_, _)
ParseDigits(s, acc) ==
    IF s = <<>> THEN acc
    ELSE ParseDigits(Tail(s), acc * 10 + DigitVal(Head(s)))

\* strconv.Atoi: optional sign, then one or more decimal digits; anything
\* else is a syntax error.  (The range error of values beyond the int width
\* needs 19 digits and lies outside MaxTyped.)
Atoi(s) ==
    LET signed == Len(s) > 0 /\ s[1] \in {"+", "-"}
        body == IF signed THEN Tail(s) ELSE s
        bad == body = <<>> \/ \E i \in 1..Len(body) : ~IsDigitChar(body[i])
    IN  IF bad THEN [err |-> TRUE, val |-> 0]
        ELSE [err |-> FALSE,
              val |-> IF signed /\ s[1] = "-" THEN 0 - ParseDigits(body, 0)
                      ELSE ParseDigits(body, 0)]

RECURSIVE Itoa(_)
Itoa(n) ==
    IF n < 0 THEN <<"-">> \o Itoa(0 - n)
    ELSE IF n < 10 THEN <<DigitChars[n + 1]>>
    ELSE Itoa(n \div 10) \o <<DigitChars[(n % 10) + 1]>>

(***************************************************************************)
(* Key tokens.  The front end sends the digits, h l m w d b and Escape     *)
(* (src/frontend/src/main.js:185-188); ProcessKeyPress itself accepts any  *)
(* string, of which "x" (no meaning in any mode) and "-1" (parses as an    *)
(* integer without being a digit) are modelled.                            *)
(***************************************************************************)
\* the digit of the documented example "2h" (src/README.md:78-82)
ExampleDigits == {"2"}
DigitKeys == {DigitChars[i + 1] : i \in 0..MaxDigit} \cup ExampleDigits
CommandKeys == {"h", "l", "m", "w", "d", "b", "Escape"}
OtherKeys == {"x", "-1"}
Keys == DigitKeys \cup CommandKeys \cup OtherKeys

KeyChars(key) ==
    CASE key = "Escape" -> <<"E", "s", "c", "a", "p", "e">>
      [] key = "-1" -> <<"-", "1">>
      [] OTHER -> <<key>>

(***************************************************************************)
(* The side effects one ProcessKeyPress call requests.                     *)
(*   mover/dir/calls/oks : the navigation collaborator invoked, with which *)
(*                         direction, how often, and how many calls        *)
(*                         returned nil                                    *)
(*   errs  : the errors the collaborator calls returned                    *)
(*   mute  : calls of audioManager.ToggleMute                              *)
(*   hides : calls of runtime.WindowHide                                   *)
(*   quits : calls of runtime.Quit                                         *)
(*   logs  : the levels of the logf calls, in order                        *)
(***************************************************************************)
NoEffects ==
    [mover |-> "none", dir |-> "none", calls |-> 0, oks |-> 0, errs |-> 0,
     mute |-> 0, hides |-> 0, quits |-> 0, logs |-> <<>>]

\* the errors returned by the one call `a.audioManager.ToggleMute()` of lines
\* 443, 479 and 515, whose result the call statement drops (failAt # 0: the
\* call returns an error, part_006:81-92)
MuteErrors(failAt) == IF failAt # 0 THEN 1 ELSE 0

\* MoveLoop without the break
RECURSIVE MoveLoopNoBreak(_, _, _)
MoveLoopNoBreak(i, count, failAt) ==
    IF i >= count THEN [calls |-> 0, oks |-> 0, logs |-> <<>>]
    ELSE LET r == MoveLoopNoBreak(i + 1, count, failAt)
         IN  IF failAt = i + 1
             THEN [calls |-> r.calls + 1, oks |-> r.oks, logs |-> <<LogLevelError>> \o r.logs]
             ELSE [calls |-> r.calls + 1, oks |-> r.oks + 1, logs |-> r.logs]

\* the loop `for i := 0; i < count; i++ { if err := Move(dir); err != nil {
\* logf(Error); break } }` where the failAt-th call is the first to return
\* an error (failAt = 0: none does)
RECURSIVE MoveLoop(_, _, _)
MoveLoop(i, count, failAt) ==
    IF i >= count THEN [calls |-> 0, oks |-> 0, logs |-> <<>>]
    ELSE IF failAt = i + 1 THEN [calls |-> 1, oks |-> 0, logs |-> <<LogLevelError>>]
    ELSE LET r == MoveLoop(i + 1, count, failAt)
         IN  [calls |-> r.calls + 1, oks |-> r.oks + 1, logs |-> r.logs]

\* RepeatCount with `c >= 0` in place of `c > 0`
RepeatCountZero(buf) ==
    IF buf # <<>>
    THEN LET r == Atoi(buf) IN IF ~r.err /\ r.val >= 0 THEN r.val ELSE 1
    ELSE 1

\* lines 411-418: the repetition count taken from numberBuffer
RepeatCount(buf) ==
    IF buf # <<>>
    THEN LET r == Atoi(buf) IN IF ~r.err /\ r.val > 0 THEN r.val ELSE 1
    ELSE 1

\* processMainModeKey whose default case falls through to the WindowHide
processMainModeKeyHideInvalid(key, count, failAt, mode, buf) ==
    CASE key = "w" ->
            [mode |-> AppModeWindow, buf |-> buf,
             fx |-> [NoEffects EXCEPT !.logs = <<LogLevelInfo>>]]
      [] key = "d" ->
            [mode |-> AppModeDisplay, buf |-> buf,
             fx |-> [NoEffects EXCEPT !.logs = <<LogLevelInfo>>]]
      [] key = "m" ->
            [mode |-> mode, buf |-> buf,
             fx |-> [NoEffects EXCEPT !.mute = 1, !.errs = MuteErrors(failAt), !.hides = 1]]
      [] key = "Escape" ->
            [mode |-> mode, buf |-> <<>>,
             fx |-> [NoEffects EXCEPT !.hides = 1]]
      [] OTHER ->
            [mode |-> mode, buf |-> buf,
             fx |-> [NoEffects EXCEPT !.logs = <<LogLevelWarn>>, !.hides = 1]]

\* processMainModeKey whose "Escape" case quits, as the two-mode variant did
processMainModeKeyEscapeQuits(key, count, failAt, mode, buf) ==
    CASE key = "w" ->
            [mode |-> AppModeWindow, buf |-> buf,
             fx |-> [NoEffects EXCEPT !.logs = <<LogLevelInfo>>]]
      [] key = "d" ->
            [mode |-> AppModeDisplay, buf |-> buf,
             fx |-> [NoEffects EXCEPT !.logs = <<LogLevelInfo>>]]
      [] key = "m" ->
            [mode |-> mode, buf |-> buf,
             fx |-> [NoEffects EXCEPT !.mute = 1, !.errs = MuteErrors(failAt), !.hides = 1]]
      [] key = "Escape" ->
            [mode |-> mode, buf |-> <<>>,
             fx |-> [NoEffects EXCEPT !.quits = 1, !.hides = 1]]
      [] OTHER ->
            [mode |-> mode, buf |-> buf,
             fx |-> [NoEffects EXCEPT !.logs = <<LogLevelWarn>>]]

\* processMainModeKey with the "h" and "l" cases of the two-mode variant
processMainModeKeyMoves(key, count, failAt, mode, buf) ==
    CASE key = "w" ->
            [mode |-> AppModeWindow, buf |-> buf,
             fx |-> [NoEffects EXCEPT !.logs = <<LogLevelInfo>>]]
      [] key = "d" ->
            [mode |-> AppModeDisplay, buf |-> buf,
             fx |-> [NoEffects EXCEPT !.logs = <<LogLevelInfo>>]]
      [] key = "m" ->
            [mode |-> mode, buf |-> buf,
             fx |-> [NoEffects EXCEPT !.mute = 1, !.errs = MuteErrors(failAt), !.hides = 1]]
      [] key = "Escape" ->
            [mode |-> mode, buf |-> <<>>,
             fx |-> [NoEffects EXCEPT !.hides = 1]]
      [] key \in {"h", "l"} ->
            [mode |-> mode, buf |-> buf,
             fx |-> [NoEffects EXCEPT !.mover = "display",
                                      !.dir = IF key = "h" THEN "left" ELSE "right",
                                      !.calls = count, !.oks = count, !.hides = 1]]
      [] OTHER ->
            [mode |-> mode, buf |-> buf,
             fx |-> [NoEffects EXCEPT !.logs = <<LogLevelWarn>>]]

\* processMainModeKey whose "Escape" case goes on from the "m" case
processMainModeKeyEscapeMutes(key, count, failAt, mode, buf) ==
    CASE key = "w" ->
            [mode |-> AppModeWindow, buf |-> buf,
             fx |-> [NoEffects EXCEPT !.logs = <<LogLevelInfo>>]]
      [] key = "d" ->
            [mode |-> AppModeDisplay, buf |-> buf,
             fx |-> [NoEffects EXCEPT !.logs = <<LogLevelInfo>>]]
      [] key = "m" ->
            [mode |-> mode, buf |-> buf,
             fx |-> [NoEffects EXCEPT !.mute = 1, !.errs = MuteErrors(failAt), !.hides = 1]]
      [] key = "Escape" ->
            [mode |-> mode, buf |-> <<>>,
             fx |-> [NoEffects EXCEPT !.mute = 1, !.errs = MuteErrors(failAt), !.hides = 1]]
      [] OTHER ->
            [mode |-> mode, buf |-> buf,
             fx |-> [NoEffects EXCEPT !.logs = <<LogLevelWarn>>]]

\* processMainModeKey: the new mode, the new buffer and the effects
processMainModeKey(key, count, failAt, mode, buf) ==
    CASE key = "w" ->
            [mode |-> AppModeWindow, buf |-> buf,
             fx |-> [NoEffects EXCEPT !.logs = <<LogLevelInfo>>]]
      [] key = "d" ->
            [mode |-> AppModeDisplay, buf |-> buf,
             fx |-> [NoEffects EXCEPT !.logs = <<LogLevelInfo>>]]
      [] key = "m" ->
            [mode |-> mode, buf |-> buf,
             fx |-> [NoEffects EXCEPT !.mute = 1, !.errs = MuteErrors(failAt), !.hides = 1]]
      [] key = "Escape" ->
            [mode |-> mode, buf |-> <<>>,
             fx |-> [NoEffects EXCEPT !.hides = 1]]
      [] OTHER ->
            [mode |-> mode, buf |-> buf,
             fx |-> [NoEffects EXCEPT !.logs = <<LogLevelWarn>>]]

\* processWindowModeKey returning from inside the loop when a move fails
processWindowModeKeyReturnOnError(key, count, failAt, mode, buf) ==
    CASE key \in {"h", "l"} ->
            LET r == MoveLoop(0, count, failAt)
            IN  [mode |-> IF r.calls > r.oks THEN mode ELSE AppModeMain, buf |-> buf,
                 fx |-> [mover |-> "space",
                         dir |-> IF key = "h" THEN "left" ELSE "right",
                         calls |-> r.calls, oks |-> r.oks, errs |-> r.calls - r.oks,
                         mute |-> 0, hides |-> IF r.calls > r.oks THEN 0 ELSE 1, quits |-> 0,
                         logs |-> r.logs]]
      [] key = "m" ->
            [mode |-> mode, buf |-> buf,
             fx |-> [NoEffects EXCEPT !.mute = 1, !.errs = MuteErrors(failAt), !.hides = 1]]
      [] key \in {"b", "Escape"} ->
            [mode |-> AppModeMain, buf |-> buf,
             fx |-> [NoEffects EXCEPT !.logs = <<LogLevelInfo>>]]
      [] OTHER ->
            [mode |-> mode, buf |-> buf,
             fx |-> [NoEffects EXCEPT !.logs = <<LogLevelWarn>>]]

\* processWindowModeKey: the space mover, count times or until it fails
processWindowModeKey(key, count, failAt, mode, buf) ==
    CASE key \in {"h", "l"} ->
            LET r == MoveLoop(0, count, failAt)
            IN  [mode |-> AppModeMain, buf |-> buf,
                 fx |-> [mover |-> "space",
                         dir |-> IF key = "h" THEN "left" ELSE "right",
                         calls |-> r.calls, oks |-> r.oks, errs |-> r.calls - r.oks,
                         mute |-> 0, hides |-> 1, quits |-> 0, logs |-> r.logs]]
      [] key = "m" ->
            [mode |-> mode, buf |-> buf,
             fx |-> [NoEffects EXCEPT !.mute = 1, !.errs = MuteErrors(failAt), !.hides = 1]]
      [] key \in {"b", "Escape"} ->
            [mode |-> AppModeMain, buf |-> buf,
             fx |-> [NoEffects EXCEPT !.logs = <<LogLevelInfo>>]]
      [] OTHER ->
            [mode |-> mode, buf |-> buf,
             fx |-> [NoEffects EXCEPT !.logs = <<LogLevelWarn>>]]

\* processDisplayModeKey whose "b"/"Escape" case lacks the return
processDisplayModeKeyBackHides(key, count, failAt, mode, buf) ==
    CASE key \in {"h", "l"} ->
            LET r == MoveLoop(0, count, failAt)
            IN  [mode |-> AppModeMain, buf |-> buf,
                 fx |-> [mover |-> "display",
                         dir |-> IF key = "h" THEN "left" ELSE "right",
                         calls |-> r.calls, oks |-> r.oks, errs |-> r.calls - r.oks,
                         mute |-> 0, hides |-> 1, quits |-> 0, logs |-> r.logs]]
      [] key = "m" ->
            [mode |-> mode, buf |-> buf,
             fx |-> [NoEffects EXCEPT !.mute = 1, !.errs = MuteErrors(failAt), !.hides = 1]]
      [] key \in {"b", "Escape"} ->
            [mode |-> AppModeMain, buf |-> buf,
             fx |-> [NoEffects EXCEPT !.logs = <<LogLevelInfo>>, !.hides = 1]]
      [] OTHER ->
            [mode |-> mode, buf |-> buf,
             fx |-> [NoEffects EXCEPT !.logs = <<LogLevelWarn>>]]

\* processDisplayModeKey whose "m" case goes back to Main mode
processDisplayModeKeyMuteToMain(key, count, failAt, mode, buf) ==
    CASE key \in {"h", "l"} ->
            LET r == MoveLoop(0, count, failAt)
            IN  [mode |-> AppModeMain, buf |-> buf,
                 fx |-> [mover |-> "display",
                         dir |-> IF key = "h" THEN "left" ELSE "right",
                         calls |-> r.calls, oks |-> r.oks, errs |-> r.calls - r.oks,
                         mute |-> 0, hides |-> 1, quits |-> 0, logs |-> r.logs]]
      [] key = "m" ->
            [mode |-> AppModeMain, buf |-> buf,
             fx |-> [NoEffects EXCEPT !.mute = 1, !.errs = MuteErrors(failAt), !.hides = 1]]
      [] key \in {"b", "Escape"} ->
            [mode |-> AppModeMain, buf |-> buf,
             fx |-> [NoEffects EXCEPT !.logs = <<LogLevelInfo>>]]
      [] OTHER ->
            [mode |-> mode, buf |-> buf,
             fx |-> [NoEffects EXCEPT !.logs = <<LogLevelWarn>>]]

\* processDisplayModeKey: the display mover, count times or until it fails
processDisplayModeKey(key, count, failAt, mode, buf) ==
    CASE key \in {"h", "l"} ->
            LET r == MoveLoop(0, count, failAt)
            IN  [mode |-> AppModeMain, buf |-> buf,
                 fx |-> [mover |-> "display",
                         dir |-> IF key = "h" THEN "left" ELSE "right",
                         calls |-> r.calls, oks |-> r.oks, errs |-> r.calls - r.oks,
                         mute |-> 0, hides |-> 1, quits |-> 0, logs |-> r.logs]]
      [] key = "m" ->
            [mode |-> mode, buf |-> buf,
             fx |-> [NoEffects EXCEPT !.mute = 1, !.errs = MuteErrors(failAt), !.hides = 1]]
      [] key \in {"b", "Escape"} ->
            [mode |-> AppModeMain, buf |-> buf,
             fx |-> [NoEffects EXCEPT !.logs = <<LogLevelInfo>>]]
      [] OTHER ->
            [mode |-> mode, buf |-> buf,
             fx |-> [NoEffects EXCEPT !.logs = <<LogLevelWarn>>]]

\* AppendNumber formatting the number with its sign
AppendNumberSigned(buf, num) == buf \o (IF num >= 0 THEN <<"+">> ELSE <<>>) \o Itoa(num)

\* AppendNumber with `=` in place of `+=`
AppendNumberAssign(buf, num) == Itoa(num)

\* AppendNumber putting the new digit in front
AppendNumberFront(buf, num) == Itoa(num) \o buf

\* line 407: a.numberBuffer += strconv.Itoa(num)
AppendNumber(buf, num) == buf \o Itoa(num)

\* BufferAfterCount without the reset of line 417
BufferAfterCountKept(buf) == buf

\* lines 413-418: numberBuffer once the count has been taken from it
BufferAfterCount(buf) == IF buf # <<>> THEN <<>> ELSE buf

\* ProcessKeyPress as a function of the state it starts in, the token and
\* the collaborator's behaviour
KeyPress(mode, buf, key, failAt) ==
    LET num == Atoi(KeyChars(key))
    IN  IF ~num.err
        THEN [mode |-> mode, buf |-> AppendNumber(buf, num.val), count |-> 0, fx |-> NoEffects]
        ELSE LET count == RepeatCount(buf)
                 buf1 == BufferAfterCount(buf)
                 r == CASE mode = AppModeMain -> processMainModeKey(key, count, failAt, mode, buf1)
                        [] mode = AppModeWindow -> processWindowModeKey(key, count, failAt, mode, buf1)
                        [] mode = AppModeDisplay -> processDisplayModeKey(key, count, failAt, mode, buf1)
             IN  [mode |-> r.mode, buf |-> r.buf, count |-> count, fx |-> r.fx]

\* the outcomes the collaborators can produce for this call: which call of
\* the mover is the first to fail, whether ToggleMute fails
FailChoices(mode, buf, key) ==
    IF mode # AppModeMain /\ key \in {"h", "l"} THEN 0..RepeatCount(buf)
    ELSE IF key = "m" THEN {0, 1}
    ELSE {0}

NoCall == [key |-> "none", mode |-> AppModeMain, buf |-> <<>>, typed |-> <<>>, failAt |-> 0,
           count |-> 0, fx |-> NoEffects]

(***************************************************************************)
(* The goroutines that run ProcessKeyPress, when none is running.          *)
(***************************************************************************)
Goroutines == {1, 2}

NoLocals == [tmp |-> <<>>, count |-> 1, i |-> 0, mode |-> AppModeMain, failAt |-> 0]

ConcIdle ==
    /\ gpc = [g \in Goroutines |-> "done"]
    /\ gkey = [g \in Goroutines |-> "none"]
    /\ gloc = [g \in Goroutines |-> NoLocals]
    /\ callLog = <<>>
    /\ start = [mode |-> AppModeMain, buf |-> <<>>]

(***************************************************************************)
(* The hotkey listener before any key-down.  lastHotkeyTime is the zero    *)
(* time.Time, about two thousand years before any reading of the clock:    *)
(* Time.Sub from it saturates far above the debounce threshold.            *)
(***************************************************************************)
ZeroTime == 0 - 1000000

NoEvent == [kind |-> "none", time |-> 0, ran |-> FALSE, panicked |-> FALSE,
            lastBefore |-> ZeroTime, acceptedBefore |-> ZeroTime,
            topBefore |-> FALSE, resetsBefore |-> <<>>,
            topAfter |-> FALSE, resetsAfter |-> <<>>, prevPanicked |-> FALSE]

ListenerIdle ==
    /\ now = 0
    /\ lastHotkeyTime = ZeroTime
    /\ alwaysOnTop = FALSE
    /\ resets = <<>>
    /\ lastAccepted = ZeroTime
    /\ lastEvent = NoEvent

(***************************************************************************)
(* HotkeyStatus (src/app.go:28-33)                                         *)
(***************************************************************************)
HotkeyStatusDisabled == "disabled"
HotkeyStatusEnabled == "enabled"
HotkeyStatusFailed == "failed"
HotkeyStatusPending == "pending"

(***************************************************************************)
(* logf (src/app.go:68-97): besides the log line, a warning or an error    *)
(* starts a goroutine that shows a runtime.MessageDialog when a.ctx is     *)
(* set.  LogfDialogs gives the dialogs of a sequence of logf calls.        *)
(***************************************************************************)
\* line 83: level >= LogLevelWarn && a.ctx != nil
ShowsDialog(level, ctxSet) == level >= LogLevelWarn /\ ctxSet

RECURSIVE LogfDialogs(_, _)
LogfDialogs(levels, ctxSet) ==
    IF levels = <<>> THEN <<>>
    ELSE (IF ShowsDialog(Head(levels), ctxSet) THEN <<"logf">> ELSE <<>>)
             \o LogfDialogs(Tail(levels), ctxSet)

\* showPermissionError (src/app.go:538-546)
PermissionErrorDialogs(ctxSet) == IF ctxSet THEN <<"permissionError">> ELSE <<>>

(***************************************************************************)
(* The hotkey lifecycle after NewApp (src/app.go:295-305): no context, no  *)
(* handle, an empty shutdown channel of capacity 1, nothing started.       *)
(***************************************************************************)
\* line 111: 30*time.Second
SetupTimeoutMs == 30000
\* line 164: maxRetries
MaxRetries == 3
\* line 165: retryDelay := time.Second
RetryDelayMs == 1000

Callers == {"signal", "onShutdown"}

NoHistory ==
    [registers |-> <<>>,    \* the outcomes of the calls of hk.Register
     waits |-> <<>>,        \* the backoff waits that ran to their end
     cutWaits |-> 0,        \* the backoff waits the setup timeout ended
     dialogs |-> <<>>,      \* the dialogs shown, by what shows them
     requests |-> 0,        \* permission-request goroutines started
     unregisters |-> 0,     \* calls of hotkeyInstance.Unregister
     signals |-> 0,         \* values sent on hotkeyShutdown
     listeners |-> 0,       \* times the listening loop was entered
     found |-> {},          \* the callers of shutdownHotkey that found a handle
     after |-> {},          \* the callers that called after another had returned
     inLoop |-> {},         \* the callers that called with the listening loop running
     keydowns |-> 0,        \* key-down events the listening loop received
     panics |-> 0,          \* panics of the listening loop with the handle stored
     sends |-> 0,           \* values the permission goroutine sent on its channel
     pending |-> 0,         \* restart goroutines asleep (lines 220-224)
     beside |-> 0,          \* calls of startHotkeyListener made beside a running one
     late |-> FALSE,        \* a handler body ran after a shutdownHotkey that acted returned
     early |-> FALSE,       \* a shutdownHotkey returned during the setup, status Pending
     exit |-> "none",       \* the statement at which setupHotkey returned
     statuses |-> <<HotkeyStatusDisabled>>]   \* the values hotkeyStatus took

LifeIdle ==
    /\ ctx = FALSE
    /\ hotkeyStatus = HotkeyStatusDisabled
    /\ hotkeyInstance = "nil"
    /\ hotkeyShutdown = 0
    /\ setup = [pc |-> "none", attempt |-> 0, retryDelay |-> 0]
    /\ elapsed = 0
    /\ perm = [pc |-> "none", chan |-> "empty", result |-> "none"]
    /\ request = "none"
    /\ listener = [pc |-> "none", bySetup |-> FALSE]
    /\ sd = [c \in Callers |-> "idle"]
    /\ alive = TRUE
    /\ hist = NoHistory

\* the lifecycle with the listening loop waiting on its select: the
\* permission was granted, the first hk.Register succeeded and setupHotkey
\* called startHotkeyListener
LifeListening ==
    /\ ctx = TRUE
    /\ hotkeyStatus = HotkeyStatusEnabled
    /\ hotkeyInstance = "hk"
    /\ hotkeyShutdown = 0
    /\ setup = [pc |-> "inListener", attempt |-> 0, retryDelay |-> RetryDelayMs]
    /\ elapsed = 0
    /\ perm = [pc |-> "done", chan |-> "empty", result |-> "granted"]
    /\ request = "none"
    /\ listener = [pc |-> "waiting", bySetup |-> TRUE]
    /\ sd = [c \in Callers |-> "idle"]
    /\ alive = TRUE
    /\ hist = [NoHistory EXCEPT
                   !.registers = <<"ok">>,
                   !.sends = 1,
                   !.listeners = 1,
                   !.statuses = <<HotkeyStatusDisabled, HotkeyStatusPending,
                                  HotkeyStatusEnabled>>]

\* the same once startup has stored the context (line 310), which happens
\* before the front end can call a bound method
LifeStarted ==
    /\ ctx = TRUE
    /\ hotkeyStatus = HotkeyStatusDisabled
    /\ hotkeyInstance = "nil"
    /\ hotkeyShutdown = 0
    /\ setup = [pc |-> "none", attempt |-> 0, retryDelay |-> 0]
    /\ elapsed = 0
    /\ perm = [pc |-> "none", chan |-> "empty", result |-> "none"]
    /\ request = "none"
    /\ listener = [pc |-> "none", bySetup |-> FALSE]
    /\ sd = [c \in Callers |-> "idle"]
    /\ alive = TRUE
    /\ hist = NoHistory

\* getCurrentDisplay has not been called
DisplayIdle ==
    /\ displays = <<>>
    /\ mouse = <<0, 0>>
    /\ chosen = 0

(***************************************************************************)
(* NewApp (src/app.go:295-305)                                             *)
(***************************************************************************)
KeysInit ==
    /\ currentMode = AppModeMain
    /\ numberBuffer = <<>>
    /\ typed = <<>>
    /\ last = NoCall

Init == KeysInit /\ ConcIdle /\ ListenerIdle /\ LifeStarted /\ DisplayIdle

Apply(key, failAt) ==
    LET r == KeyPress(currentMode, numberBuffer, key, failAt)
    IN  /\ currentMode' = r.mode
        /\ numberBuffer' = r.buf
        /\ typed' = IF Atoi(KeyChars(key)).err THEN <<>> ELSE Append(typed, key)
        /\ last' = [key |-> key, mode |-> currentMode, buf |-> numberBuffer,
                    typed |-> typed, failAt |-> failAt, count |-> r.count, fx |-> r.fx]
        /\ UNCHANGED <<concVars, listenerVars, lifeVars, dispVars>>

\* a token that strconv.Atoi accepts (lines 406-409)
PressNumber ==
    \E key \in Keys :
        /\ ~Atoi(KeyChars(key)).err
        /\ Len(typed) < MaxTyped
        /\ Apply(key, 0)

\* any other token (lines 411-428)
PressCommand ==
    \E key \in Keys :
        /\ Atoi(KeyChars(key)).err
        /\ \E failAt \in FailChoices(currentMode, numberBuffer, key) :
               Apply(key, failAt)

Next == PressNumber \/ PressCommand

\* ProcessKeyPress called one call at a time
Spec == Init /\ [][Next]_vars

(***************************************************************************)
(* Two ProcessKeyPress calls running concurrently, each on its own         *)
(* goroutine, statement by statement.  App has no lock (src/app.go:45-56): *)
(* every read and write of currentMode and numberBuffer is a step of its   *)
(* own.                                                                    *)
(***************************************************************************)
ConcKeys == {"1", "2", "h", "m", "w", "Escape"}
ConcBuffers == {<<>>, <<"2">>}
ConcFailAt == {0, 1}

ConcInit ==
    /\ currentMode \in AppModes
    /\ numberBuffer \in ConcBuffers
    /\ typed = <<>>
    /\ last = NoCall
    /\ gpc = [g \in Goroutines |-> "start"]
    /\ gkey \in [Goroutines -> ConcKeys]
    /\ \E f \in [Goroutines -> ConcFailAt] :
           gloc = [g \in Goroutines |-> [NoLocals EXCEPT !.failAt = f[g]]]
    /\ callLog = <<>>
    /\ start = [mode |-> currentMode, buf |-> numberBuffer]
    /\ ListenerIdle
    /\ LifeStarted
    /\ DisplayIdle

Goto(g, label) == gpc' = [gpc EXCEPT ![g] = label]

\* line 406: strconv.Atoi(key)
GAtoi(g) ==
    /\ gpc[g] = "start"
    /\ Goto(g, IF Atoi(KeyChars(gkey[g])).err THEN "countTest" ELSE "numberRead")
    /\ UNCHANGED <<keyVars, gkey, gloc, callLog, start, listenerVars, lifeVars, dispVars>>

\* line 407, the read of a.numberBuffer
GNumberRead(g) ==
    /\ gpc[g] = "numberRead"
    /\ gloc' = [gloc EXCEPT ![g].tmp = numberBuffer]
    /\ Goto(g, "numberWrite")
    /\ UNCHANGED <<keyVars, gkey, callLog, start, listenerVars, lifeVars, dispVars>>

\* line 407, the write of a.numberBuffer; line 408
GNumberWrite(g) ==
    /\ gpc[g] = "numberWrite"
    /\ numberBuffer' = AppendNumber(gloc[g].tmp, Atoi(KeyChars(gkey[g])).val)
    /\ Goto(g, "done")
    /\ UNCHANGED <<currentMode, typed, last, gkey, gloc, callLog, start, listenerVars, lifeVars, dispVars>>

\* lines 412-413: count := 1; if a.numberBuffer != ""
GCountTest(g) ==
    /\ gpc[g] = "countTest"
    /\ gloc' = [gloc EXCEPT ![g].count = 1]
    /\ Goto(g, IF numberBuffer # <<>> THEN "countParse" ELSE "dispatch")
    /\ UNCHANGED <<keyVars, gkey, callLog, start, listenerVars, lifeVars, dispVars>>

\* lines 414-416: strconv.Atoi(a.numberBuffer), a second read
GCountParse(g) ==
    /\ gpc[g] = "countParse"
    /\ gloc' = [gloc EXCEPT ![g].count = RepeatCount(numberBuffer)]
    /\ Goto(g, "countReset")
    /\ UNCHANGED <<keyVars, gkey, callLog, start, listenerVars, lifeVars, dispVars>>

\* line 417: a.numberBuffer = ""
GCountReset(g) ==
    /\ gpc[g] = "countReset"
    /\ numberBuffer' = <<>>
    /\ Goto(g, "dispatch")
    /\ UNCHANGED <<currentMode, typed, last, gkey, gloc, callLog, start, listenerVars, lifeVars, dispVars>>

\* lines 421-428 and the switch of the per-mode dispatcher: where the call
\* goes for the mode it reads
DispatchTarget(mode, key) ==
    IF mode = AppModeMain
    THEN CASE key \in {"w", "d"} -> "setMode"
           [] key = "m" -> "mute"
           [] key = "Escape" -> "hide"
           [] OTHER -> "done"
    ELSE CASE key \in {"h", "l"} -> "move"
           [] key = "m" -> "mute"
           [] key \in {"b", "Escape"} -> "setMode"
           [] OTHER -> "done"

GDispatch(g) ==
    /\ gpc[g] = "dispatch"
    /\ gloc' = [gloc EXCEPT ![g].mode = currentMode, ![g].i = 0]
    /\ Goto(g, DispatchTarget(currentMode, gkey[g]))
    /\ UNCHANGED <<keyVars, gkey, callLog, start, listenerVars, lifeVars, dispVars>>

\* one iteration of the loops of lines 460-465, 470-475, 496-501, 506-511
GMove(g) ==
    /\ gpc[g] = "move"
    /\ gloc[g].i < gloc[g].count
    /\ callLog' = Append(callLog,
                         [mover |-> IF gloc[g].mode = AppModeWindow THEN "space" ELSE "display",
                          dir |-> IF gkey[g] = "h" THEN "left" ELSE "right"])
    /\ gloc' = [gloc EXCEPT ![g].i = @ + 1]
    /\ Goto(g, IF gloc[g].failAt = gloc[g].i + 1 \/ gloc[g].i + 1 >= gloc[g].count
               THEN "setMain" ELSE "move")
    /\ UNCHANGED <<keyVars, gkey, start, listenerVars, lifeVars, dispVars>>

\* lines 435, 439, 481, 517 (the call returns) and 467, 477, 503, 513 (the
\* call goes on to WindowHide)
GSetMode(g) ==
    /\ gpc[g] \in {"setMode", "setMain"}
    /\ currentMode' = CASE gpc[g] = "setMode" /\ gkey[g] = "w" -> AppModeWindow
                        [] gpc[g] = "setMode" /\ gkey[g] = "d" -> AppModeDisplay
                        [] OTHER -> AppModeMain
    /\ Goto(g, IF gpc[g] = "setMode" THEN "done" ELSE "hide")
    /\ UNCHANGED <<numberBuffer, typed, last, gkey, gloc, callLog, start, listenerVars, lifeVars, dispVars>>

\* lines 443, 479, 515: a.audioManager.ToggleMute()
GMute(g) ==
    /\ gpc[g] = "mute"
    /\ callLog' = Append(callLog, [mover |-> "audio", dir |-> "toggle"])
    /\ Goto(g, "hide")
    /\ UNCHANGED <<keyVars, gkey, gloc, start, listenerVars, lifeVars, dispVars>>

\* lines 445, 452, 488, 524: runtime.WindowHide
GHide(g) ==
    /\ gpc[g] = "hide"
    /\ callLog' = Append(callLog, [mover |-> "window", dir |-> "hide"])
    /\ Goto(g, IF gloc[g].mode = AppModeMain /\ gkey[g] = "Escape" THEN "escapeReset" ELSE "done")
    /\ UNCHANGED <<keyVars, gkey, gloc, start, listenerVars, lifeVars, dispVars>>

\* line 446: a.numberBuffer = ""
GEscapeReset(g) ==
    /\ gpc[g] = "escapeReset"
    /\ numberBuffer' = <<>>
    /\ Goto(g, "done")
    /\ UNCHANGED <<currentMode, typed, last, gkey, gloc, callLog, start, listenerVars, lifeVars, dispVars>>

ConcNext ==
    \E g \in Goroutines :
        \/ GAtoi(g)
        \/ GNumberRead(g)
        \/ GNumberWrite(g)
        \/ GCountTest(g)
        \/ GCountParse(g)
        \/ GCountReset(g)
        \/ GDispatch(g)
        \/ GMove(g)
        \/ GSetMode(g)
        \/ GMute(g)
        \/ GHide(g)
        \/ GEscapeReset(g)

SpecConc == ConcInit /\ [][ConcNext]_vars

(***************************************************************************)
(* The listening loop of startHotkeyListener (src/app.go:236-272), from    *)
(* the point where it waits for a key-down.  The time of a key-down event  *)
(* is the reading of time.Now() in its handler (line 250).                 *)
(***************************************************************************)
\* line 251: 200*time.Millisecond
DebounceMs == 200
\* line 263: 100*time.Millisecond
ResetDelayMs == 100

\* the clock advances between events by one of these amounts
TickSteps == {DebounceMs - 1, DebounceMs}

\* listener model: the outcomes of showWindowOnCurrentScreen
ShowOutcomes == {"shown", "panic"}

\* TooSoon with `<=` in place of `<`
TooSoonInclusive(t, lastTime) == t - lastTime <= DebounceMs

\* line 251: now.Sub(a.lastHotkeyTime) < 200*time.Millisecond
TooSoon(t, lastTime) == t - lastTime < DebounceMs

\* lines 251-255: a.lastHotkeyTime after the handler
HandlerTimestamp(t, lastTime) == IF TooSoon(t, lastTime) THEN lastTime ELSE t

ListenerInit ==
    /\ KeysInit
    /\ ConcIdle
    /\ ListenerIdle
    /\ LifeListening
    /\ DisplayIdle

\* the reading of the clock once the span of MaxTime is over: no key-down
\* comes any more, the goroutines still asleep wake up
Horizon == MaxTime + ResetDelayMs

Tick ==
    \E d \in TickSteps :
        /\ now <= MaxTime
        /\ now' = IF now + d <= MaxTime THEN now + d ELSE Horizon
        /\ UNCHANGED <<lastHotkeyTime, alwaysOnTop, resets, lastAccepted, lastEvent,
                       keyVars, concVars, lifeVars, dispVars>>

Event(ran, panicked) ==
    [kind |-> "keydown", time |-> now, ran |-> ran, panicked |-> panicked,
     lastBefore |-> lastHotkeyTime, acceptedBefore |-> lastAccepted,
     topBefore |-> alwaysOnTop, resetsBefore |-> resets,
     topAfter |-> alwaysOnTop', resetsAfter |-> resets',
     prevPanicked |-> lastEvent.panicked]

\* where the loop is after the activation handler
\* AfterHandler whose panic reaches the loop
AfterHandlerPanicEscapes(panicked) == IF panicked THEN "restartWait" ELSE "select"

\* lines 242-247 and 266: the handler returns, having recovered a panic of
\* its own, and the loop goes round
AfterHandler(panicked) == "select"

\* the handler without the goroutine that resets always-on-top
SpawnResetNone(rs, t) == rs

\* lines 262-265: the goroutine that sleeps 100ms and then resets
\* always-on-top is started; the handler does not wait for it
SpawnReset(rs, t) == Append(rs, t + ResetDelayMs)

\* lines 238-254: a key-down that the handler debounces
KeyDownDebounced ==
    /\ alive
    /\ listener.pc = "waiting"
    /\ now <= MaxTime
    /\ TooSoon(now, lastHotkeyTime)
    /\ lastHotkeyTime' = HandlerTimestamp(now, lastHotkeyTime)
    /\ listener' = [listener EXCEPT !.pc = AfterHandler(FALSE)]
    /\ UNCHANGED <<now, alwaysOnTop, resets, lastAccepted, keyVars, concVars, lifeRest, dispVars>>
    /\ lastEvent' = Event(FALSE, FALSE)

\* lines 238-266: a key-down whose handler body runs; a panic of
\* showWindowOnCurrentScreen is recovered at lines 243-247
KeyDownAccepted ==
    /\ alive
    /\ listener.pc = "waiting"
    /\ now <= MaxTime
    /\ ~TooSoon(now, lastHotkeyTime)
    /\ lastHotkeyTime' = HandlerTimestamp(now, lastHotkeyTime)
    /\ lastAccepted' = now
    /\ \E outcome \in ShowOutcomes :
           IF outcome = "shown"
           THEN /\ alwaysOnTop' = TRUE
                /\ resets' = SpawnReset(resets, now)
                /\ listener' = [listener EXCEPT !.pc = AfterHandler(FALSE)]
                /\ lastEvent' = Event(TRUE, FALSE)
           ELSE /\ UNCHANGED <<alwaysOnTop, resets>>
                /\ listener' = [listener EXCEPT !.pc = AfterHandler(TRUE)]
                /\ lastEvent' = Event(TRUE, TRUE)
    /\ UNCHANGED <<now, keyVars, concVars, lifeRest, dispVars>>

\* lines 262-265: one of the spawned goroutines wakes up
ResetAlwaysOnTop ==
    \E i \in 1..Len(resets) :
        /\ resets[i] <= now
        /\ alwaysOnTop' = FALSE
        /\ resets' = [j \in 1..(Len(resets) - 1) |-> IF j < i THEN resets[j] ELSE resets[j + 1]]
        /\ UNCHANGED <<now, lastHotkeyTime, lastAccepted, lastEvent, keyVars, concVars, lifeVars, dispVars>>


(***************************************************************************)
(* The hotkey lifecycle: startup (src/app.go:309-326) starts setupHotkey   *)
(* (99-212), which checks the accessibility permission on a goroutine of   *)
(* its own, registers the hotkey with retries and then runs the listening  *)
(* loop of startHotkeyListener (215-273); shutdownHotkey (276-292) is      *)
(* called by the signal goroutine of main.go and by onShutdown (342-345).  *)
(* App has no mutex: every statement that reads or writes a field of App   *)
(* is a step of its own.                                                   *)
(***************************************************************************)
LifeInit ==
    /\ KeysInit
    /\ ConcIdle
    /\ ListenerIdle
    /\ LifeIdle
    /\ DisplayIdle

\* the time the model lets pass in one step while a goroutine is busy or
\* blocked
SlowSteps == {14000, 29000}

\* the outcomes of permissions.CheckAccessibilityPermissions (line 128)
PermOutcomes == {"granted", "denied", "panic"}

\* the outcomes of hk.Register (line 176)
RegisterOutcomes == {"ok", "err", "panic"}

\* SetupExpired of a context without a deadline
SetupExpiredNever(t) == FALSE

\* setupCtx.Done() is ready (lines 136, 169, 196)
SetupExpired(t) == t >= SetupTimeoutMs

\* the value hotkeyStatus takes is recorded when it differs from the last
Traced(v) ==
    IF v = hotkeyStatus THEN hist.statuses ELSE Append(hist.statuses, v)

Dialogs(levels) == hist.dialogs \o LogfDialogs(levels, ctx)

\* startup, lines 309-326: the context is stored and the goroutine that
\* calls setupHotkey is started
Startup ==
    /\ alive
    /\ ~ctx
    /\ ctx' = TRUE
    /\ setup' = [setup EXCEPT !.pc = "start"]
    /\ hist' = [hist EXCEPT !.dialogs =
                    hist.dialogs \o LogfDialogs(<<LogLevelInfo, LogLevelInfo>>, TRUE)]
    /\ UNCHANGED <<hotkeyStatus, hotkeyInstance, hotkeyShutdown, elapsed,
                   perm, request, listener, sd, alive,
                   keyVars, concVars, listenerVars, dispVars>>

\* time passes while the setup is under way or the listener runs (the time
\* of a backoff wait passes in the step that ends the wait)
TimePasses ==
    /\ alive
    /\ setup.pc \notin {"none", "start", "backoff"}
    /\ \E d \in SlowSteps :
          /\ elapsed + d <= MaxElapsed
          /\ elapsed' = elapsed + d
    /\ UNCHANGED <<ctx, hotkeyStatus, hotkeyInstance, hotkeyShutdown, setup,
                   perm, request, listener, sd, alive, hist,
                   keyVars, concVars, listenerVars, dispVars>>

\* lines 107-131: the status becomes Pending, the setup context starts its
\* 30 seconds and the permission check is started on its goroutine
SetupBegin ==
    /\ alive
    /\ setup.pc = "start"
    /\ hotkeyStatus' = HotkeyStatusPending
    /\ elapsed' = 0
    /\ perm' = [pc |-> "checking", chan |-> "empty", result |-> "none"]
    /\ setup' = [setup EXCEPT !.pc = "permWait"]
    /\ hist' = [hist EXCEPT !.statuses = Traced(HotkeyStatusPending),
                            !.dialogs = Dialogs(<<LogLevelInfo, LogLevelInfo>>)]
    /\ UNCHANGED <<ctx, hotkeyInstance, hotkeyShutdown, request, listener, sd, alive,
                   keyVars, concVars, listenerVars, dispVars>>

\* what the permission goroutine sends
\* CheckResult with a panic taken for a grant
CheckResultPanicGrants(o) == IF o = "denied" THEN "false" ELSE "true"

\* lines 117-130: hasPerms, or false from the deferred function after a panic
CheckResult(o) == IF o = "granted" THEN "true" ELSE "false"

\* lines 116-129: the check returns its result, or panics and the deferred
\* function logs the error; the goroutine comes to its send
PermissionCheck ==
    /\ alive
    /\ perm.pc = "checking"
    /\ \E o \in PermOutcomes :
          /\ perm' = [pc |-> "sending", result |-> o, chan |-> perm.chan]
          /\ hist' = [hist EXCEPT !.dialogs =
                         Dialogs(IF o = "panic" THEN <<LogLevelError>>
                                 ELSE <<LogLevelInfo>>)]
    /\ UNCHANGED <<ctx, hotkeyStatus, hotkeyInstance, hotkeyShutdown, setup, elapsed,
                   request, listener, sd, alive,
                   keyVars, concVars, listenerVars, dispVars>>

\* the values permissionsChan holds
PermChanLen(ch) == IF ch = "empty" THEN 0 ELSE 1

\* line 114: make(chan bool, 1)
PermChanCap == 1

\* PermChanHasRoom of an unbuffered channel with no receiver
PermChanHasRoomUnbuffered(ch) == PermChanLen(ch) < 0

\* a send on permissionsChan does not block
PermChanHasRoom(ch) == PermChanLen(ch) < PermChanCap

\* lines 123 and 130: the goroutine's one send, which goes through when the
\* channel has room, whether or not setupHotkey still waits for it; the
\* goroutine ends after it
PermissionSend ==
    /\ alive
    /\ perm.pc = "sending"
    /\ PermChanHasRoom(perm.chan)
    /\ perm' = [perm EXCEPT !.pc = "done", !.chan = CheckResult(perm.result)]
    /\ hist' = [hist EXCEPT !.sends = hist.sends + 1]
    /\ UNCHANGED <<ctx, hotkeyStatus, hotkeyInstance, hotkeyShutdown, setup, elapsed,
                   request, listener, sd, alive,
                   keyVars, concVars, listenerVars, dispVars>>

\* lines 134-140, the second case of the select: the setup context is done
SetupPermTimeout ==
    /\ alive
    /\ setup.pc = "permWait"
    /\ SetupExpired(elapsed)
    /\ hotkeyStatus' = HotkeyStatusFailed
    /\ setup' = [setup EXCEPT !.pc = "returned"]
    /\ hist' = [hist EXCEPT !.statuses = Traced(HotkeyStatusFailed),
                            !.exit = "permTimeout",
                            !.dialogs = Dialogs(<<LogLevelError>>)]
    /\ UNCHANGED <<ctx, hotkeyInstance, hotkeyShutdown, elapsed, perm, request,
                   listener, sd, alive,
                   keyVars, concVars, listenerVars, dispVars>>

\* the status after a refused permission
\* DeniedStatus as for a failure
DeniedStatusFailed == HotkeyStatusFailed

\* line 144: a.hotkeyStatus = HotkeyStatusDisabled
DeniedStatus == HotkeyStatusDisabled

\* lines 135 and 142-159: the check said no; the status goes back to
\* Disabled, the request is put on a goroutine that sleeps first, and
\* setupHotkey returns
SetupNotGranted ==
    /\ alive
    /\ setup.pc = "permWait"
    /\ perm.chan = "false"
    /\ perm' = [perm EXCEPT !.chan = "empty"]
    /\ hotkeyStatus' = DeniedStatus
    /\ request' = "sleeping"
    /\ setup' = [setup EXCEPT !.pc = "returned"]
    /\ hist' = [hist EXCEPT !.statuses = Traced(DeniedStatus),
                            !.requests = hist.requests + 1,
                            !.exit = "notGranted",
                            !.dialogs = Dialogs(<<LogLevelWarn>>)]
    /\ UNCHANGED <<ctx, hotkeyInstance, hotkeyShutdown, elapsed, listener, sd, alive,
                   keyVars, concVars, listenerVars, dispVars>>

\* lines 147-156: after its sleep the goroutine asks the system for the
\* permission
PermissionRequest ==
    /\ alive
    /\ request = "sleeping"
    /\ request' = "done"
    /\ hist' = [hist EXCEPT !.dialogs = Dialogs(<<LogLevelInfo>>)]
    /\ UNCHANGED <<ctx, hotkeyStatus, hotkeyInstance, hotkeyShutdown, setup, elapsed,
                   perm, listener, sd, alive,
                   keyVars, concVars, listenerVars, dispVars>>

\* lines 135 and 161-165: the check said yes; the retry loop starts
SetupGranted ==
    /\ alive
    /\ setup.pc = "permWait"
    /\ perm.chan = "true"
    /\ perm' = [perm EXCEPT !.chan = "empty"]
    /\ setup' = [pc |-> "register", attempt |-> 0, retryDelay |-> RetryDelayMs]
    /\ UNCHANGED <<ctx, hotkeyStatus, hotkeyInstance, hotkeyShutdown, elapsed,
                   request, listener, sd, alive, hist,
                   keyVars, concVars, listenerVars, dispVars>>

\* lines 168-174: the loop finds the setup context done before an attempt
SetupRegisterTimeout ==
    /\ alive
    /\ setup.pc = "register"
    /\ SetupExpired(elapsed)
    /\ hotkeyStatus' = HotkeyStatusFailed
    /\ setup' = [setup EXCEPT !.pc = "returned"]
    /\ hist' = [hist EXCEPT !.statuses = Traced(HotkeyStatusFailed),
                            !.exit = "registerTimeout",
                            !.dialogs = Dialogs(<<LogLevelError>>)]
    /\ UNCHANGED <<ctx, hotkeyInstance, hotkeyShutdown, elapsed, perm, request,
                   listener, sd, alive,
                   keyVars, concVars, listenerVars, dispVars>>

\* the attempt after which the loop gives up
\* LastAttempt with one more attempt
LastAttemptLate(attempt) == attempt = MaxRetries

\* line 186: attempt == maxRetries-1
LastAttempt(attempt) == attempt = MaxRetries - 1

\* the status written on a success
\* RegisteredStatus written only after the handle is stored
RegisteredStatusLate == HotkeyStatusPending

\* line 179, before the handle is stored at line 180
RegisteredStatus == HotkeyStatusEnabled

\* lines 176-191 and 100-105: one call of hk.Register.  Success sets the
\* status (the handle is stored by the next statement); a failure on the
\* last attempt sets Failed and shows the permission error; any other
\* failure goes to the backoff wait; a panic is recovered by the deferred
\* function of setupHotkey
SetupRegister ==
    /\ alive
    /\ setup.pc = "register"
    /\ ~SetupExpired(elapsed)
    /\ \E o \in RegisterOutcomes :
          LET called == Append(hist.registers, o) IN
          CASE o = "ok" ->
                 /\ hotkeyStatus' = RegisteredStatus
                 /\ setup' = [setup EXCEPT !.pc = "store"]
                 /\ hist' = [hist EXCEPT !.registers = called,
                                !.statuses = Traced(RegisteredStatus),
                                !.dialogs = Dialogs(<<LogLevelInfo>>)]
            [] o = "err" /\ LastAttempt(setup.attempt) ->
                 /\ hotkeyStatus' = HotkeyStatusFailed
                 /\ setup' = [setup EXCEPT !.pc = "returned"]
                 /\ hist' = [hist EXCEPT !.registers = called,
                                !.statuses = Traced(HotkeyStatusFailed),
                                !.exit = "exhausted",
                                !.dialogs = Dialogs(<<LogLevelWarn, LogLevelError>>)
                                               \o PermissionErrorDialogs(ctx)]
            [] o = "err" /\ ~LastAttempt(setup.attempt) ->
                 /\ hotkeyStatus' = hotkeyStatus
                 /\ setup' = [setup EXCEPT !.pc = "backoff"]
                 /\ hist' = [hist EXCEPT !.registers = called,
                                !.dialogs = Dialogs(<<LogLevelWarn>>)]
            [] o = "panic" ->
                 /\ hotkeyStatus' = HotkeyStatusFailed
                 /\ setup' = [setup EXCEPT !.pc = "returned"]
                 /\ hist' = [hist EXCEPT !.registers = called,
                                !.statuses = Traced(HotkeyStatusFailed),
                                !.exit = "panic",
                                !.dialogs = Dialogs(<<LogLevelError>>)]
    /\ UNCHANGED <<ctx, hotkeyInstance, hotkeyShutdown, elapsed, perm, request,
                   listener, sd, alive,
                   keyVars, concVars, listenerVars, dispVars>>

\* where the loop goes after a success
\* LoopAfterSuccess without the break
LoopAfterSuccessNoBreak == "backoff"

\* line 181: break
LoopAfterSuccess == "afterLoop"

\* lines 180-181: the handle is stored and the loop is left
SetupStore ==
    /\ alive
    /\ setup.pc = "store"
    /\ hotkeyInstance' = "hk"
    /\ setup' = [setup EXCEPT !.pc = LoopAfterSuccess]
    /\ UNCHANGED <<ctx, hotkeyStatus, hotkeyShutdown, elapsed, perm, request,
                   listener, sd, alive, hist,
                   keyVars, concVars, listenerVars, dispVars>>

\* the next retry delay
\* NextDelay that does not grow
NextDelaySame(d) == d

\* line 201: retryDelay *= 2
NextDelay(d) == d * 2

\* lines 194-201: the wait before the next attempt; it ends when the delay
\* has passed or when the setup context is done, whichever is first (the
\* select may take either when both are ready)
SetupBackoffWait ==
    /\ alive
    /\ setup.pc = "backoff"
    /\ elapsed + setup.retryDelay <= SetupTimeoutMs
    /\ elapsed' = elapsed + setup.retryDelay
    /\ setup' = [pc |-> "register", attempt |-> setup.attempt + 1,
                 retryDelay |-> NextDelay(setup.retryDelay)]
    /\ hist' = [hist EXCEPT !.waits = Append(hist.waits, setup.retryDelay)]
    /\ UNCHANGED <<ctx, hotkeyStatus, hotkeyInstance, hotkeyShutdown, perm, request,
                   listener, sd, alive,
                   keyVars, concVars, listenerVars, dispVars>>

SetupBackoffTimeout ==
    /\ alive
    /\ setup.pc = "backoff"
    /\ elapsed + setup.retryDelay >= SetupTimeoutMs
    /\ elapsed' = SetupTimeoutMs
    /\ hotkeyStatus' = HotkeyStatusFailed
    /\ setup' = [setup EXCEPT !.pc = "returned"]
    /\ hist' = [hist EXCEPT !.cutWaits = hist.cutWaits + 1,
                            !.exit = "backoffTimeout",
                            !.statuses = Traced(HotkeyStatusFailed),
                            !.dialogs = Dialogs(<<LogLevelError>>)]
    /\ UNCHANGED <<ctx, hotkeyInstance, hotkeyShutdown, perm, request,
                   listener, sd, alive,
                   keyVars, concVars, listenerVars, dispVars>>

\* the listener is started by setupHotkey
\* line 204: the status is read again after the loop
StartsListener(status) == status = HotkeyStatusEnabled

\* lines 204-211: setupHotkey returns, or calls startHotkeyListener
SetupAfterLoop ==
    /\ alive
    /\ setup.pc = "afterLoop"
    /\ IF StartsListener(hotkeyStatus)
       THEN /\ setup' = [setup EXCEPT !.pc = "inListener"]
            /\ listener' = [pc |-> "enter", bySetup |-> TRUE]
            /\ hist' = [hist EXCEPT !.dialogs = Dialogs(<<LogLevelInfo>>)]
       ELSE /\ setup' = [setup EXCEPT !.pc = "returned"]
            /\ hist' = [hist EXCEPT !.exit = "notEnabled"]
            /\ listener' = listener
    /\ UNCHANGED <<ctx, hotkeyStatus, hotkeyInstance, hotkeyShutdown, elapsed, perm,
                   request, sd, alive,
                   keyVars, concVars, listenerVars, dispVars>>

\* the first call of startHotkeyListener is made by setupHotkey, which
\* returns when that call does (line 211-212)
SetupAfterListener(by) ==
    IF by THEN [setup EXCEPT !.pc = "returned"] ELSE setup

ExitAfterListener(by) == IF by THEN "listener" ELSE hist.exit

\* lines 228-233: without a handle the listener logs an error and returns
ListenerEnter ==
    /\ alive
    /\ listener.pc = "enter"
    /\ IF hotkeyInstance = "nil"
       THEN /\ listener' = [listener EXCEPT !.pc = "returned"]
            /\ setup' = SetupAfterListener(listener.bySetup)
            /\ hist' = [hist EXCEPT !.exit = ExitAfterListener(listener.bySetup),
                                    !.dialogs = Dialogs(<<LogLevelError>>)]
       ELSE /\ listener' = [listener EXCEPT !.pc = "select"]
            /\ setup' = setup
            /\ hist' = [hist EXCEPT !.listeners = hist.listeners + 1,
                                    !.dialogs = Dialogs(<<LogLevelInfo>>)]
    /\ UNCHANGED <<ctx, hotkeyStatus, hotkeyInstance, hotkeyShutdown, elapsed, perm,
                   request, sd, alive,
                   keyVars, concVars, listenerVars, dispVars>>

\* the restart goroutines asleep once a panic was recovered
\* ScheduleRestart of a deferred function that starts two goroutines
ScheduleRestartTwice(pending) == pending + 2

\* lines 220-224: one `go func()` in the deferred function
ScheduleRestart(pending) == pending + 1

\* where startHotkeyListener is after a panic of its loop
\* AfterLoopPanic without the restart goroutine
AfterLoopPanicNoRestart == "returned"

\* lines 216-226: the deferred function recovers, logs and starts the
\* goroutine that sleeps and calls startHotkeyListener again
AfterLoopPanic == "restartWait"

\* lines 216-226 and 236-272: a panic raised in the loop outside the
\* activation handler (in the Keydown call or in logf) is recovered by the
\* deferred function of startHotkeyListener
ListenerPanic ==
    /\ alive
    /\ listener.pc \in {"select", "waiting"}
    /\ hotkeyInstance # "nil"
    /\ hist.panics < MaxPanics
    /\ listener' = [listener EXCEPT !.pc = AfterLoopPanic]
    /\ setup' = SetupAfterListener(listener.bySetup)
    /\ hist' = [hist EXCEPT !.panics = hist.panics + 1,
                            !.pending = ScheduleRestart(hist.pending),
                            !.exit = ExitAfterListener(listener.bySetup),
                            !.dialogs = Dialogs(<<LogLevelError>>)]
    /\ UNCHANGED <<ctx, hotkeyStatus, hotkeyInstance, hotkeyShutdown, elapsed, perm,
                   request, sd, alive,
                   keyVars, concVars, listenerVars, dispVars>>

\* lines 237-238 and 216-226: the select evaluates
\* a.hotkeyInstance.Keydown(); with the handle cleared by shutdownHotkey
\* that is a nil dereference, recovered by the deferred function, which logs
\* the error and starts the goroutine that restarts the listener
ListenerSelect ==
    /\ alive
    /\ listener.pc = "select"
    /\ IF hotkeyInstance = "nil"
       THEN /\ listener' = [listener EXCEPT !.pc = AfterLoopPanic]
            /\ setup' = SetupAfterListener(listener.bySetup)
            /\ hist' = [hist EXCEPT !.pending = ScheduleRestart(hist.pending),
                                    !.exit = ExitAfterListener(listener.bySetup),
                                    !.dialogs = Dialogs(<<LogLevelError>>)]
       ELSE /\ listener' = [listener EXCEPT !.pc = "waiting"]
            /\ UNCHANGED <<setup, hist>>
    /\ UNCHANGED <<ctx, hotkeyStatus, hotkeyInstance, hotkeyShutdown, elapsed, perm,
                   request, sd, alive,
                   keyVars, concVars, listenerVars, dispVars>>

\* lines 238-266: a key-down event is handled (the handler is the subject
\* of Event above) and the loop goes round
ListenerKeydown ==
    /\ alive
    /\ listener.pc = "waiting"
    /\ hist.keydowns < MaxKeydowns
    /\ listener' = [listener EXCEPT !.pc = "select"]
    /\ hist' = [hist EXCEPT !.keydowns = hist.keydowns + 1,
                            !.late = hist.late \/ \E c \in hist.found : sd[c] = "done",
                            !.dialogs = Dialogs(<<LogLevelInfo>>)]
    /\ UNCHANGED <<ctx, hotkeyStatus, hotkeyInstance, hotkeyShutdown, setup, elapsed,
                   perm, request, sd, alive,
                   keyVars, concVars, listenerVars, dispVars>>

\* what makes the waiting loop return
\* ListenerStops of a select without the shutdown case
ListenerStopsNever(signalled, expired) == FALSE

\* ListenerStops on the setup timeout as well
ListenerStopsOnTimeout(signalled, expired) == signalled \/ expired

\* line 268: case <-a.hotkeyShutdown
ListenerStops(signalled, expired) == signalled

\* lines 268-270: the shutdown signal is received and the listener returns
ListenerShutdown ==
    /\ alive
    /\ listener.pc = "waiting"
    /\ ListenerStops(hotkeyShutdown > 0, SetupExpired(elapsed))
    /\ hotkeyShutdown' = IF hotkeyShutdown > 0 THEN hotkeyShutdown - 1 ELSE 0
    /\ listener' = [listener EXCEPT !.pc = "returned"]
    /\ setup' = SetupAfterListener(listener.bySetup)
    /\ hist' = [hist EXCEPT !.exit = ExitAfterListener(listener.bySetup),
                            !.dialogs = Dialogs(<<LogLevelInfo>>)]
    /\ UNCHANGED <<ctx, hotkeyStatus, hotkeyInstance, elapsed, perm, request, sd, alive,
                   keyVars, concVars, listenerVars, dispVars>>

\* lines 220-224: a restart goroutine calls startHotkeyListener again; a
\* call made while an earlier call is still in the function runs beside it
ListenerRestart ==
    /\ alive
    /\ hist.pending > 0
    /\ IF listener.pc = "restartWait"
       THEN /\ listener' = [pc |-> "enter", bySetup |-> FALSE]
            /\ hist' = [hist EXCEPT !.pending = hist.pending - 1,
                                    !.dialogs = Dialogs(<<LogLevelInfo>>)]
       ELSE /\ listener' = listener
            /\ hist' = [hist EXCEPT !.pending = hist.pending - 1,
                                    !.beside = hist.beside + 1,
                                    !.dialogs = Dialogs(<<LogLevelInfo>>)]
    /\ UNCHANGED <<ctx, hotkeyStatus, hotkeyInstance, hotkeyShutdown, setup, elapsed,
                   perm, request, sd, alive,
                   keyVars, concVars, listenerVars, dispVars>>

(***************************************************************************)
(* shutdownHotkey (src/app.go:276-292), called by the signal goroutine of  *)
(* main.go (before os.Exit) and by onShutdown (342-345).                   *)
(***************************************************************************)
\* capacity of hotkeyShutdown, line 303: make(chan bool, 1)
ShutdownCap == 1

\* the callers whose calls have returned
Returned == {c \in Callers : sd[c] = "done"}

\* a caller starts its call; the history keeps whether another call had
\* returned by then
ShutdownCall(c) ==
    /\ alive
    /\ sd[c] = "idle"
    /\ c = "onShutdown" => ctx
    /\ sd' = [sd EXCEPT ![c] = "check"]
    /\ hist' = [hist EXCEPT
                   !.after = IF Returned # {} THEN hist.after \cup {c} ELSE hist.after,
                   !.inLoop = IF listener.pc \in {"select", "waiting"}
                              THEN hist.inLoop \cup {c} ELSE hist.inLoop]
    /\ UNCHANGED <<ctx, hotkeyStatus, hotkeyInstance, hotkeyShutdown, setup, elapsed,
                   perm, request, listener, alive,
                   keyVars, concVars, listenerVars, dispVars>>

\* shutdownHotkey acts
\* HasHandle without the test
HasHandleAlways(instance) == TRUE

\* line 277: a.hotkeyInstance != nil
HasHandle(instance) == instance # "nil"

\* line 277: without a handle the call returns at once
ShutdownCheck(c) ==
    /\ alive
    /\ sd[c] = "check"
    /\ IF HasHandle(hotkeyInstance)
       THEN /\ sd' = [sd EXCEPT ![c] = "signal"]
            /\ hist' = [hist EXCEPT !.found = hist.found \cup {c}]
       ELSE /\ sd' = [sd EXCEPT ![c] = "done"]
            /\ hist' = [hist EXCEPT !.early =
                            hist.early \/ (/\ hotkeyStatus = HotkeyStatusPending
                                           /\ setup.pc \notin {"none", "start", "returned"})]
    /\ UNCHANGED <<ctx, hotkeyStatus, hotkeyInstance, hotkeyShutdown, setup, elapsed,
                   perm, request, listener, alive,
                   keyVars, concVars, listenerVars, dispVars>>

\* lines 281-284: the signal is sent when the channel has room, and dropped
\* otherwise
ShutdownSignal(c) ==
    /\ alive
    /\ sd[c] = "signal"
    /\ sd' = [sd EXCEPT ![c] = "unregister"]
    /\ IF hotkeyShutdown < ShutdownCap
       THEN /\ hotkeyShutdown' = hotkeyShutdown + 1
            /\ hist' = [hist EXCEPT !.signals = hist.signals + 1]
       ELSE UNCHANGED <<hotkeyShutdown, hist>>
    /\ UNCHANGED <<ctx, hotkeyStatus, hotkeyInstance, setup, elapsed,
                   perm, request, listener, alive,
                   keyVars, concVars, listenerVars, dispVars>>

\* line 287: a.hotkeyInstance.Unregister(); if another call has cleared the
\* handle since line 277 this is a nil dereference, which nothing recovers:
\* the process dies
ShutdownUnregister(c) ==
    /\ alive
    /\ sd[c] = "unregister"
    /\ IF hotkeyInstance = "nil"
       THEN /\ sd' = [sd EXCEPT ![c] = "panicked"]
            /\ alive' = FALSE
            /\ hist' = hist
       ELSE /\ sd' = [sd EXCEPT ![c] = "clear"]
            /\ alive' = alive
            /\ hist' = [hist EXCEPT !.unregisters = hist.unregisters + 1]
    /\ UNCHANGED <<ctx, hotkeyStatus, hotkeyInstance, hotkeyShutdown, setup, elapsed,
                   perm, request, listener,
                   keyVars, concVars, listenerVars, dispVars>>

\* ShutdownClear that leaves the handle
ShutdownClearSkipped(c) ==
    /\ alive
    /\ sd[c] = "clear"
    /\ sd' = [sd EXCEPT ![c] = "status"]
    /\ UNCHANGED <<ctx, hotkeyStatus, hotkeyInstance, hotkeyShutdown, setup, elapsed,
                   perm, request, listener, alive, hist,
                   keyVars, concVars, listenerVars, dispVars>>

\* line 288: a.hotkeyInstance = nil
ShutdownClear(c) ==
    /\ alive
    /\ sd[c] = "clear"
    /\ sd' = [sd EXCEPT ![c] = "status"]
    /\ hotkeyInstance' = "nil"
    /\ UNCHANGED <<ctx, hotkeyStatus, hotkeyShutdown, setup, elapsed,
                   perm, request, listener, alive, hist,
                   keyVars, concVars, listenerVars, dispVars>>

\* lines 289-291: a.hotkeyStatus = HotkeyStatusDisabled, and the return
ShutdownStatus(c) ==
    /\ alive
    /\ sd[c] = "status"
    /\ sd' = [sd EXCEPT ![c] = "done"]
    /\ hotkeyStatus' = HotkeyStatusDisabled
    /\ hist' = [hist EXCEPT !.statuses = Traced(HotkeyStatusDisabled),
                            !.dialogs = Dialogs(<<LogLevelInfo>>)]
    /\ UNCHANGED <<ctx, hotkeyInstance, hotkeyShutdown, setup, elapsed,
                   perm, request, listener, alive,
                   keyVars, concVars, listenerVars, dispVars>>

ShutdownStep(c) ==
    \/ ShutdownCheck(c)
    \/ ShutdownSignal(c)
    \/ ShutdownUnregister(c)
    \/ ShutdownClear(c)
    \/ ShutdownStatus(c)

\* main.go: os.Exit(0) after the signal goroutine's call, and the return of
\* main after onShutdown
ProcessExit ==
    /\ alive
    /\ Returned # {}
    /\ alive' = FALSE
    /\ UNCHANGED <<ctx, hotkeyStatus, hotkeyInstance, hotkeyShutdown, setup, elapsed,
                   perm, request, listener, sd, hist,
                   keyVars, concVars, listenerVars, dispVars>>

\* the listening loop with its clock: key-downs, the resets they start, and
\* the loop going round to its select
ListenerNext ==
    \/ Tick
    \/ KeyDownDebounced
    \/ KeyDownAccepted
    \/ ResetAlwaysOnTop
    \/ ListenerSelect

SpecListener == ListenerInit /\ [][ListenerNext]_vars

\* the same, where time goes on, a goroutine whose time.Sleep is over runs
\* (lines 262-265), and the loop goes round
SpecListenerFair ==
    /\ SpecListener
    /\ WF_vars(Tick)
    /\ WF_vars(ResetAlwaysOnTop)
    /\ WF_vars(ListenerSelect)

LifeNext ==
    \/ Startup
    \/ TimePasses
    \/ SetupBegin
    \/ PermissionCheck
    \/ PermissionSend
    \/ SetupPermTimeout
    \/ SetupNotGranted
    \/ PermissionRequest
    \/ SetupGranted
    \/ SetupRegisterTimeout
    \/ SetupRegister
    \/ SetupStore
    \/ SetupBackoffWait
    \/ SetupBackoffTimeout
    \/ SetupAfterLoop
    \/ ListenerEnter
    \/ ListenerSelect
    \/ ListenerPanic
    \/ ListenerKeydown
    \/ ListenerShutdown
    \/ ListenerRestart
    \/ \E c \in Callers : ShutdownCall(c)
    \/ \E c \in Callers : ShutdownCheck(c)
    \/ \E c \in Callers : ShutdownSignal(c)
    \/ \E c \in Callers : ShutdownUnregister(c)
    \/ \E c \in Callers : ShutdownClear(c)
    \/ \E c \in Callers : ShutdownStatus(c)
    \/ ProcessExit

SpecLife == LifeInit /\ [][LifeNext]_vars

\* Every goroutine that can take a step takes one in the end: the permission
\* goroutine at its send, the listener
\* (its sleep before a restart ends, its select takes a case that is ready)
\* and each call of shutdownHotkey, none of whose statements blocks.
SpecLifeFair ==
    /\ SpecLife
    /\ WF_vars(PermissionSend)
    /\ WF_vars(ListenerEnter)
    /\ WF_vars(ListenerSelect)
    /\ WF_vars(ListenerShutdown)
    /\ WF_vars(ListenerRestart)
    /\ \A c \in Callers : WF_vars(ShutdownStep(c))

(***************************************************************************)
(* getCurrentDisplay (src/app.go:641-675) on the displays that             *)
(* GetConfiguration returns (src/unnamed/part_006:277-300): every field of *)
(* a Display is the "%.0f" text of a whole number of points, and           *)
(* getCurrentDisplay reads it back with strconv.ParseFloat, dropping the   *)
(* error.  The displays are squares of side DisplaySide.                   *)
(***************************************************************************)
DisplaySide == 2
DisplayXs == {0 - DisplaySide, 0, DisplaySide}
DisplayYs == {0, DisplaySide}
MouseXs == (0 - DisplaySide - 1)..(2 * DisplaySide + 1)
MouseYs == (0 - 1)..(2 * DisplaySide + 1)

\* fmt.Sprintf("%.0f", v) for a whole number v
FormatFloat0(v) == Itoa(v)

\* strconv.ParseFloat(s, 64) with the error dropped: 0 when s does not parse
ParseFloat(s) == LET r == Atoi(s) IN IF r.err THEN 0 ELSE r.val

\* one element of the slice built by GetConfiguration
Display(x, y) ==
    [X |-> FormatFloat0(x), Y |-> FormatFloat0(y),
     Width |-> FormatFloat0(DisplaySide), Height |-> FormatFloat0(DisplaySide)]

DisplayChoices == {Display(x, y) : x \in DisplayXs, y \in DisplayYs}

DisplayLists ==
    UNION {[1..n -> DisplayChoices] : n \in 1..MaxDisplays}

\* lines 652-658: the test of the first loop
ContainsMouse(d, mouseX, mouseY) ==
    LET x == ParseFloat(d.X)
        y == ParseFloat(d.Y)
        width == ParseFloat(d.Width)
        height == ParseFloat(d.Height)
    IN  mouseX >= x /\ mouseX <= x + width /\ mouseY >= y /\ mouseY <= y + height

\* line 667: displays[i].X == "0" && displays[i].Y == "0"
AtOrigin(d) == d.X = <<"0">> /\ d.Y = <<"0">>

\* the first index the loop `for i := range displays` returns at, given the
\* indices at which its test succeeds; 0 when the loop runs to its end
FirstIndex(found) ==
    IF found = {} THEN 0
    ELSE CHOOSE i \in found : \A j \in found : i <= j

\* getCurrentDisplay taking the last display that contains the pointer
getCurrentDisplayLast(ds, mouseX, mouseY) ==
    IF Len(ds) = 1 THEN 1
    ELSE LET hits == {i \in 1..Len(ds) : ContainsMouse(ds[i], mouseX, mouseY)}
             byOrigin == FirstIndex({i \in 1..Len(ds) : AtOrigin(ds[i])})
         IN  IF hits # {} THEN CHOOSE i \in hits : \A j \in hits : j <= i
             ELSE IF byOrigin # 0 THEN byOrigin
             ELSE 1

\* getCurrentDisplay: the index (from 1) of the element whose address is
\* returned
getCurrentDisplay(ds, mouseX, mouseY) ==
    IF Len(ds) = 1 THEN 1
    ELSE LET byMouse == FirstIndex({i \in 1..Len(ds) :
                                      ContainsMouse(ds[i], mouseX, mouseY)})
             byOrigin == FirstIndex({i \in 1..Len(ds) : AtOrigin(ds[i])})
         IN  IF byMouse # 0 THEN byMouse
             ELSE IF byOrigin # 0 THEN byOrigin
             ELSE 1

\* the slice and the pointer position of one call
DisplayInit ==
    /\ KeysInit
    /\ ConcIdle
    /\ ListenerIdle
    /\ LifeStarted
    /\ displays \in DisplayLists
    /\ mouse \in MouseXs \X MouseYs
    /\ chosen = 0

\* the call a.getCurrentDisplay(displays) of showWindowOnCurrentScreen
\* (line 609) and of GetCurrentScreenInfo (line 687)
CallGetCurrentDisplay ==
    /\ chosen = 0
    /\ chosen' = getCurrentDisplay(displays, mouse[1], mouse[2])
    /\ UNCHANGED <<displays, mouse, keyVars, concVars, listenerVars, lifeVars>>

DisplayNext == CallGetCurrentDisplay

SpecDisplay == DisplayInit /\ [][DisplayNext]_vars

(***************************************************************************)
(* Properties of the modal command processor.                              *)
(***************************************************************************)
NavModes == {AppModeWindow, AppModeDisplay}

\* the last call was a navigation token in a navigation mode
NavCall == last.key \in {"h", "l"} /\ last.mode \in NavModes

\* the last call's token was taken as a command, not as a number
CommandCall == last.key \in Keys /\ Atoi(KeyChars(last.key)).err

\* a non-empty sequence of the digit tokens "0" .. "9"
IsDigitTokens(ts) == ts # <<>> /\ \A i \in 1..Len(ts) : ts[i] \in {DigitChars[j] : j \in 1..10}

\* the integer formed by concatenating digit tokens, by place value
RECURSIVE Power10(_)
Power10(n) == IF n = 0 THEN 1 ELSE 10 * Power10(n - 1)

RECURSIVE ConcatValue(_)
ConcatValue(ts) ==
    IF ts = <<>> THEN 0
    ELSE DigitVal(Head(ts)) * Power10(Len(ts) - 1) + ConcatValue(Tail(ts))

\* the collaborators were not called and no hide was requested
NoCollaborator(fx) == fx.mover = "none" /\ fx.calls = 0 /\ fx.mute = 0

\* C1 as stated: after digit tokens d1..dn and then "h" or "l" in WindowNav or
\* DisplayNav mode, the repeat count is the integer d1..dn and numberBuffer is
\* empty on return.
C1_CountIsConcatenation ==
    (NavCall /\ IsDigitTokens(last.typed))
        => (last.count = ConcatValue(last.typed) /\ numberBuffer = <<>>)

\* C1 amended: the repeat count is the integer d1..dn when that integer is at
\* least 1, and 1 when it is 0; numberBuffer is empty on return.
C1_CountIsConcatenationOrOne ==
    (NavCall /\ IsDigitTokens(last.typed))
        => /\ last.count = (IF ConcatValue(last.typed) >= 1
                            THEN ConcatValue(last.typed) ELSE 1)
           /\ numberBuffer = <<>>

C1_Witness ==
    /\ NavCall
    /\ last.typed = <<"1", "0">>
    /\ last.count = 10
    /\ last.fx.calls = 10

\* an integer literal as strconv.Atoi accepts it, stated on the characters
IsIntegerLiteral(buf) ==
    \/ /\ Len(buf) >= 1
       /\ \A i \in 1..Len(buf) : IsDigitChar(buf[i])
    \/ /\ Len(buf) >= 2
       /\ buf[1] \in {"+", "-"}
       /\ \A i \in 2..Len(buf) : IsDigitChar(buf[i])

\* an integer literal whose digits are all "0"
IsZeroLiteral(buf) ==
    /\ IsIntegerLiteral(buf)
    /\ \A i \in 1..Len(buf) : buf[i] \in {"0", "+", "-"}

\* C2: the repeat count of a non-digit token is never below 1; it is exactly 1
\* for an empty numberBuffer, for one that parses to 0 and for one that does
\* not parse; a navigation token makes at least one collaborator call.
C2_CountAtLeastOne ==
    CommandCall
        => /\ last.count >= 1
           /\ (last.buf = <<>> \/ IsZeroLiteral(last.buf) \/ ~IsIntegerLiteral(last.buf))
                  => last.count = 1
           /\ NavCall => last.fx.calls >= 1

\* "1" and then "-1" leave a buffer that strconv.Atoi rejects
C2_Witness ==
    /\ NavCall
    /\ last.buf = <<"1", "-", "1">>
    /\ ~IsIntegerLiteral(last.buf)
    /\ last.count = 1
    /\ last.fx.calls = 1

\* C3: "h"/"l" with count c calls MoveToSpace in WindowNav mode and
\* MoveToDisplay in DisplayNav mode with the matching direction: c calls when
\* all succeed, k calls (k-1 successes) when the k-th is the first to fail.
C3_CallsUntilFirstError ==
    NavCall
        => /\ last.fx.mover = (IF last.mode = AppModeWindow THEN "space" ELSE "display")
           /\ last.fx.dir = (IF last.key = "h" THEN "left" ELSE "right")
           /\ last.fx.mute = 0
           /\ last.failAt = 0
                  => (last.fx.calls = last.count /\ last.fx.oks = last.count)
           /\ last.failAt \in 1..last.count
                  => (last.fx.calls = last.failAt /\ last.fx.oks = last.failAt - 1)

C3_Witness ==
    /\ NavCall
    /\ last.count >= 3
    /\ last.failAt = 2
    /\ last.fx.calls = 2
    /\ last.fx.oks = 1

\* C4: after "h"/"l" in WindowNav or DisplayNav mode, currentMode is Main and
\* a window hide was requested, whether or not a collaborator call failed.
C4_NavEndsInMainHidden ==
    NavCall => (currentMode = AppModeMain /\ last.fx.hides = 1)

C4_Witness ==
    /\ NavCall
    /\ last.mode = AppModeWindow
    /\ last.failAt = 1
    /\ last.fx.oks = 0
    /\ currentMode = AppModeMain
    /\ last.fx.hides = 1

\* the last call was "w" or "d" in Main mode
SwitchCall == last.key \in {"w", "d"} /\ last.mode = AppModeMain

C5_SwitchState ==
    SwitchCall
        => /\ currentMode = (IF last.key = "w" THEN AppModeWindow ELSE AppModeDisplay)
           /\ numberBuffer = <<>>
           /\ NoCollaborator(last.fx)
           /\ last.fx.hides = 0

\* the command that directly follows a mode switch runs with count 1
C5_SwitchStep ==
    (SwitchCall /\ Atoi(KeyChars(last'.key)).err) => last'.count = 1

\* C5: in Main mode, whatever numberBuffer holds, "w" sets WindowNav and "d"
\* sets DisplayNav, numberBuffer is empty afterwards, no collaborator is called
\* and no hide is requested; the digits typed before the switch are not the
\* repeat count of a later command.
C5_ModeSwitchDropsCount == []C5_SwitchState /\ [][C5_SwitchStep]_vars

C5_Witness ==
    /\ SwitchCall
    /\ last.key = "w"
    /\ last.buf = <<"1", "1">>
    /\ currentMode = AppModeWindow
    /\ numberBuffer = <<>>

\* C6: in WindowNav or DisplayNav mode, "b" or "Escape" sets Main, calls no
\* mover (whatever numberBuffer holds) and requests no hide.
C6_BackReturnsToMain ==
    (last.key \in {"b", "Escape"} /\ last.mode \in NavModes)
        => /\ currentMode = AppModeMain
           /\ last.fx.mover = "none"
           /\ last.fx.calls = 0
           /\ last.fx.hides = 0

C6_Witness ==
    /\ last.key = "Escape"
    /\ last.mode = AppModeDisplay
    /\ last.buf = <<"1">>
    /\ currentMode = AppModeMain
    /\ last.fx.hides = 0

\* C7: a digit token, in any mode, is appended to the end of numberBuffer and
\* nothing else happens.
C7_DigitAppends ==
    (last.key \in {DigitChars[j] : j \in 1..10})
        => /\ numberBuffer = Append(last.buf, last.key)
           /\ currentMode = last.mode
           /\ NoCollaborator(last.fx)
           /\ last.fx.hides = 0

C7_Witness ==
    /\ last.key = "0"
    /\ last.mode = AppModeWindow
    /\ last.buf = <<"1">>
    /\ numberBuffer = <<"1", "0">>

\* the last call's token has no meaning in the mode it was pressed in
UnrecognisedCall ==
    /\ CommandCall
    /\ \/ last.mode = AppModeMain /\ last.key \notin {"w", "d", "m", "Escape"}
       \/ last.mode \in NavModes /\ last.key \notin {"h", "l", "m", "b", "Escape"}

\* C8 as stated: an unrecognised token changes nothing: currentMode and
\* numberBuffer are what they were, no collaborator is called, no hide is
\* requested.
C8_InvalidKeyChangesNothing ==
    UnrecognisedCall
        => /\ currentMode = last.mode
           /\ numberBuffer = last.buf
           /\ NoCollaborator(last.fx)
           /\ last.fx.hides = 0

\* C8 amended: an unrecognised token leaves currentMode as it was and
\* numberBuffer empty (pending digits are dropped); no collaborator is called
\* and no hide is requested.
C8_InvalidKeyDropsDigitsOnly ==
    UnrecognisedCall
        => /\ currentMode = last.mode
           /\ numberBuffer = <<>>
           /\ NoCollaborator(last.fx)
           /\ last.fx.hides = 0

C8_Witness ==
    /\ UnrecognisedCall
    /\ last.key = "h"
    /\ last.mode = AppModeMain
    /\ last.buf = <<"1", "0">>
    /\ numberBuffer = <<>>

(***************************************************************************)
(* Properties of concurrent ProcessKeyPress calls.                         *)
(***************************************************************************)
\* the collaborator calls of one ProcessKeyPress call run on its own
FxCalls(fx) ==
    [i \in 1..fx.calls |-> [mover |-> fx.mover, dir |-> fx.dir]]
        \o [i \in 1..fx.mute |-> [mover |-> "audio", dir |-> "toggle"]]

\* the outcome of running the call of goroutine g1 and then that of g2
Serial(g1, g2) ==
    LET r1 == KeyPress(start.mode, start.buf, gkey[g1], gloc[g1].failAt)
        r2 == KeyPress(r1.mode, r1.buf, gkey[g2], gloc[g2].failAt)
    IN  [mode |-> r2.mode, buf |-> r2.buf, calls |-> FxCalls(r1.fx) \o FxCalls(r2.fx)]

IsCollaboratorCall(c) == c.mover # "window"

\* C9: two concurrent ProcessKeyPress calls leave currentMode, numberBuffer
\* and the sequence of collaborator calls as the two calls run one after the
\* other, in some order, would.
C9_ConcurrentCallsSerialise ==
    (\A g \in Goroutines : gpc[g] = "done" /\ gkey[g] \in ConcKeys)
        => [mode |-> currentMode, buf |-> numberBuffer,
            calls |-> SelectSeq(callLog, IsCollaboratorCall)]
               \in {Serial(1, 2), Serial(2, 1)}

(***************************************************************************)
(* Properties of the hotkey listener.                                      *)
(***************************************************************************)
\* no activation was accepted before the last event, or the last one was
\* accepted at least DebounceMs before it
DebounceElapsed ==
    \/ lastEvent.acceptedBefore = ZeroTime
    \/ lastEvent.time - lastEvent.acceptedBefore >= DebounceMs

\* C10: a key-down runs the handler body if and only if at least 200ms have
\* passed since the last accepted activation (or none was accepted yet); a
\* key-down that comes sooner has no side effect and leaves lastHotkeyTime as
\* it was.
C10_DebounceFromLastAccepted ==
    lastEvent.kind = "keydown"
        => /\ lastEvent.ran <=> DebounceElapsed
           /\ ~lastEvent.ran
                  => /\ lastHotkeyTime = lastEvent.lastBefore
                     /\ lastAccepted = lastEvent.acceptedBefore
                     /\ lastEvent.topAfter = lastEvent.topBefore
                     /\ lastEvent.resetsAfter = lastEvent.resetsBefore
           /\ (lastEvent.ran /\ ~lastEvent.panicked)
                  => /\ lastEvent.topAfter
                     /\ lastHotkeyTime = lastEvent.time

\* the third of three key-downs 199ms apart: 398ms after the last accepted
\* one, 199ms after the last one received
C10_Witness ==
    /\ lastEvent.kind = "keydown"
    /\ lastEvent.ran
    /\ lastEvent.time = 2 * (DebounceMs - 1)
    /\ lastEvent.acceptedBefore = 0
    /\ lastEvent.lastBefore = 0

(***************************************************************************)
(* Properties of the hotkey lifecycle.                                     *)
(***************************************************************************)
NoShutdownCalled == \A c \in Callers : sd[c] = "idle"

ListenerRan == listener.pc # "none" \/ hist.listeners > 0

\* C11: when the permission check reports 'not granted', the status went
\* Disabled, Pending, Disabled and never Failed, hk.Register was never
\* called, the listener was not started, exactly one permission request was
\* put on a goroutine of its own, and setupHotkey has returned whether or
\* not that goroutine has run.
C11_NotGrantedDisablesAndRequestsOnce ==
    hist.exit = "notGranted" =>
        /\ hist.statuses = <<HotkeyStatusDisabled, HotkeyStatusPending,
                             HotkeyStatusDisabled>>
        /\ hotkeyStatus = HotkeyStatusDisabled
        /\ hist.registers = <<>>
        /\ hotkeyInstance = "nil"
        /\ ~ListenerRan
        /\ hist.requests = 1
        /\ request \in {"sleeping", "done"}
        /\ setup.pc = "returned"

C11_Witness ==
    /\ hist.exit = "notGranted"
    /\ perm.result = "denied"
    /\ request = "sleeping"
    /\ setup.pc = "returned"

\* C12: when the permission check has not returned before the setup
\* timeout, setupHotkey leaves the status Disabled (not Failed), attempts
\* no registration and returns.
C12_PermTimeoutLeavesDisabled ==
    hist.exit = "permTimeout" =>
        /\ hotkeyStatus = HotkeyStatusDisabled
        /\ hist.registers = <<>>
        /\ setup.pc = "returned"

\* the sum of the waits done
RECURSIVE SumSeq(_)
SumSeq(q) == IF q = <<>> THEN 0 ELSE Head(q) + SumSeq(Tail(q))

\* C13: hk.Register is called at most three times and never after a
\* success; when the first two attempts fail and the third succeeds,
\* setupHotkey has waited 1 second and then 2 seconds (3 seconds in all, no
\* wait after the success or cut short), the status became Enabled, and,
\* as long as shutdownHotkey has not been called, the handle is stored once
\* line 180 has run and the listener is started after it (setupHotkey is left
\* only by a panic of the listening loop, which waits for its restart).
C13_RetriesWithBackoffThenListens ==
    /\ Len(hist.registers) <= MaxRetries
    /\ \A i \in 1..Len(hist.registers) :
          hist.registers[i] = "ok" => i = Len(hist.registers)
    /\ hist.registers = <<"err", "err", "ok">> =>
          /\ hist.waits = <<1000, 2000>>
          /\ SumSeq(hist.waits) >= 3000
          /\ elapsed >= 3000
          /\ hist.cutWaits = 0
          /\ hist.statuses[Len(hist.statuses)] = HotkeyStatusEnabled
                 \/ hist.found # {}
          /\ NoShutdownCalled =>
                /\ hotkeyStatus = HotkeyStatusEnabled
                /\ setup.pc \in {"store", "afterLoop", "inListener", "returned"}
                /\ setup.pc # "store" => hotkeyInstance = "hk"
                /\ setup.pc = "store" => hotkeyInstance = "nil"
                /\ setup.pc = "inListener" => listener.pc \in {"enter", "select", "waiting"}
                /\ setup.pc \in {"inListener", "returned"} <=> listener.pc # "none"
                /\ setup.pc = "returned" => hist.panics > 0
                /\ listener.pc \in {"none", "enter", "select", "waiting", "restartWait"}
                /\ listener.pc = "restartWait" => hist.panics > 0

C13_Witness ==
    /\ hist.registers = <<"err", "err", "ok">>
    /\ NoShutdownCalled
    /\ hotkeyInstance = "hk"
    /\ listener.pc = "waiting"
    /\ hist.listeners = 1

\* C14: when all three registration attempts fail, the status is Failed,
\* the permission-error dialog has been shown once, no handle is stored,
\* the only waits were the two between the attempts, the listener is not
\* started, and setupHotkey has returned with the application still running.
C14_ExhaustedRetriesFail ==
    hist.registers = <<"err", "err", "err">> =>
        /\ hotkeyStatus = HotkeyStatusFailed
        /\ hist.statuses = <<HotkeyStatusDisabled, HotkeyStatusPending,
                             HotkeyStatusFailed>>
        /\ Len(SelectSeq(hist.dialogs, LAMBDA d : d = "permissionError")) = 1
        /\ hotkeyInstance = "nil"
        /\ hist.waits = <<1000, 2000>>
        /\ hist.cutWaits = 0
        /\ ~ListenerRan
        /\ setup.pc = "returned"
        /\ hist.exit = "exhausted"
        /\ NoShutdownCalled => alive

C14_Witness ==
    /\ hist.registers = <<"err", "err", "err">>
    /\ hist.exit = "exhausted"
    /\ hotkeyStatus = HotkeyStatusFailed
    /\ alive

\* the status changes the lifecycle allows
StatusEdges ==
    {<<HotkeyStatusDisabled, HotkeyStatusPending>>,
     <<HotkeyStatusPending, HotkeyStatusEnabled>>,
     <<HotkeyStatusPending, HotkeyStatusFailed>>,
     <<HotkeyStatusPending, HotkeyStatusDisabled>>,
     <<HotkeyStatusEnabled, HotkeyStatusDisabled>>}

\* C15: every change of hotkeyStatus is Disabled->Pending, Pending->Enabled,
\* Pending->Failed, Pending->Disabled or Enabled->Disabled, whatever the
\* interleaving of setupHotkey, the listener and the callers of
\* shutdownHotkey; so Failed is never left and Enabled never becomes Failed.
C15_StatusFollowsEdges ==
    [][hotkeyStatus' # hotkeyStatus =>
          <<hotkeyStatus, hotkeyStatus'>> \in StatusEdges]_vars

C15_Witness ==
    /\ hist.statuses = <<HotkeyStatusDisabled, HotkeyStatusPending,
                         HotkeyStatusEnabled, HotkeyStatusDisabled>>
    /\ hist.found # {}
    /\ listener.pc # "none"

ListenerInLoop == listener.pc \in {"select", "waiting"}

\* C16: with the listener running after a successful registration, the end
\* of the 30 seconds of the setup changes nothing: the step on which they
\* end leaves the listener, the status, the handle and setupHotkey where
\* they were, the status is still Enabled afterwards as long as
\* shutdownHotkey has not been called, and the loop is left only by
\* receiving the shutdown signal or by a panic.
C16_TimeoutDoesNotStopListener ==
    /\ [](ListenerInLoop /\ SetupExpired(elapsed) /\ NoShutdownCalled =>
              /\ hotkeyStatus = HotkeyStatusEnabled
              /\ hotkeyInstance = "hk"
              /\ hist.exit \notin {"permTimeout", "registerTimeout", "backoffTimeout"})
    /\ [][/\ ListenerInLoop /\ ~SetupExpired(elapsed) /\ SetupExpired(elapsed') =>
                /\ listener' = listener
                /\ hotkeyStatus' = hotkeyStatus
                /\ hotkeyInstance' = hotkeyInstance
                /\ setup' = setup
          /\ ListenerInLoop /\ ~ListenerInLoop' =>
                \/ /\ listener'.pc = "returned"
                   /\ hotkeyShutdown > 0
                   /\ hotkeyShutdown' = hotkeyShutdown - 1
                \/ listener'.pc = "restartWait"]_vars

C16_Witness ==
    /\ listener.pc = "waiting"
    /\ SetupExpired(elapsed)
    /\ hist.keydowns > 0
    /\ hotkeyStatus = HotkeyStatusEnabled
    /\ NoShutdownCalled

\* no two calls of shutdownHotkey have overlapped
Sequential == (\A c \in Callers : sd[c] # "idle") => hist.after # {}

\* the call of c began after a call that found the handle had returned
AfterActingCall(c) == c \in hist.after /\ hist.found \ {c} # {}

ShutdownRunning(c) == sd[c] \in {"check", "signal", "unregister", "clear", "status"}

\* C17: when the calls of shutdownHotkey follow one another, the hotkey is
\* unregistered at most once and one signal at most is sent; a call made
\* after a call that found the handle finds none, and none of its steps
\* changes the status, the handle or the channel; no call panics, and a
\* call under way can always take its next step.  When no handle was ever
\* stored, no call finds one, unregisters, signals or panics.
C17_ShutdownTwiceIsSafe ==
    /\ [](/\ Sequential =>
                /\ hist.unregisters <= 1
                /\ hist.signals <= 1
                /\ \A c \in Callers : sd[c] # "panicked"
                /\ \A c \in Callers : AfterActingCall(c) => c \notin hist.found
          /\ \A c \in Callers : alive /\ ShutdownRunning(c) => ENABLED ShutdownStep(c)
          /\ (\A i \in 1..Len(hist.registers) : hist.registers[i] # "ok") =>
                /\ hist.found = {}
                /\ hist.unregisters = 0
                /\ hist.signals = 0
                /\ hotkeyShutdown = 0
                /\ \A c \in Callers : sd[c] # "panicked")
    /\ [][\A c \in Callers :
            sd'[c] # sd[c] /\ sd[c] # "idle" /\ Sequential /\ AfterActingCall(c) =>
                /\ hotkeyStatus' = hotkeyStatus
                /\ hotkeyInstance' = hotkeyInstance
                /\ hotkeyShutdown' = hotkeyShutdown
                /\ hist'.signals = hist.signals
                /\ hist'.unregisters = hist.unregisters]_vars

C17_Witness ==
    /\ \A c \in Callers : sd[c] = "done"
    /\ hist.after # {}
    /\ hist.found # {}
    /\ hist.unregisters = 1
    /\ hist.signals = 1
    /\ alive

\* C18 as stated: whenever a call of shutdownHotkey returns, the handle is
\* cleared and the status is Disabled.
C18_ShutdownAlwaysDisables ==
    [][\A c \in Callers :
          sd[c] # "done" /\ sd'[c] = "done" =>
              hotkeyInstance' = "nil" /\ hotkeyStatus' = HotkeyStatusDisabled]_vars

\* C18, amended: a call of shutdownHotkey that found a handle returns with
\* the handle cleared and the status Disabled, and they stay so; a call
\* that found none (setup not completed, whatever the status) returns
\* having changed neither the status, nor the handle, nor the channel.
C18_ShutdownDisablesWhenHandleFound ==
    /\ [](\A c \in Callers :
             sd[c] = "done" /\ c \in hist.found =>
                 hotkeyInstance = "nil" /\ hotkeyStatus = HotkeyStatusDisabled)
    /\ [][\A c \in Callers :
             sd[c] = "check" /\ sd'[c] = "done" =>
                 /\ c \notin hist'.found
                 /\ hotkeyInstance = "nil"
                 /\ hotkeyStatus' = hotkeyStatus
                 /\ hotkeyInstance' = hotkeyInstance
                 /\ hotkeyShutdown' = hotkeyShutdown]_vars

C18_Witness ==
    /\ \E c \in Callers : sd[c] = "done" /\ c \in hist.found
    /\ \E c \in Callers : sd[c] = "done" /\ c \notin hist.found
    /\ hotkeyStatus = HotkeyStatusDisabled
    /\ hotkeyInstance = "nil"

\* C19: when the permission check reports 'not granted', setupHotkey
\* returns without a dialog having been shown.
C19_NotGrantedShowsNoDialog ==
    hist.exit = "notGranted" /\ perm.result = "denied" => hist.dialogs = <<>>

\* C20: a call of ProcessKeyPress with an unrecognised token shows no
\* dialog: none of its logf calls is one that opens a MessageDialog.
C20_InvalidKeyShowsNoDialog ==
    UnrecognisedCall => LogfDialogs(last.fx.logs, ctx) = <<>>

(***************************************************************************)
(* Properties of the documented key bindings (src/README.md).              *)
(***************************************************************************)
\* the last call came after the single digit "2", typed with the buffer empty
AfterTwo == last.typed = <<"2">> /\ last.buf = <<"2">>

C30_MuteOnceKeepsMode ==
    last.key = "m" =>
        /\ last.fx.mute = 1
        /\ last.fx.mover = "none"
        /\ last.fx.calls = 0
        /\ currentMode = last.mode
        /\ last.fx.hides = 1
        /\ last.fx.quits = 0

C30_Witness ==
    /\ last.key = "m"
    /\ last.mode = AppModeDisplay
    /\ last.count = 10
    /\ last.fx.mute = 1
    /\ currentMode = AppModeDisplay

(***************************************************************************)
(* Properties of the display selection.                                    *)
(***************************************************************************)
\* the rectangle of display d, taken from the numbers it was built from,
\* contains the point, edges included
InRectangle(d, px, py) ==
    \E x \in DisplayXs, y \in DisplayYs :
        /\ d = Display(x, y)
        /\ x <= px /\ px <= x + DisplaySide
        /\ y <= py /\ py <= y + DisplaySide

OriginIsZero(d) == d = Display(0, 0)

Hits == {i \in 1..Len(displays) : InRectangle(displays[i], mouse[1], mouse[2])}
Origins == {i \in 1..Len(displays) : OriginIsZero(displays[i])}
Least(S) == CHOOSE i \in S : \A j \in S : i <= j

\* C21: for a non-empty list, getCurrentDisplay returns the only display of
\* a list of one; otherwise the first display whose rectangle, edges
\* included, contains the pointer; otherwise the first display with origin
\* (0,0); otherwise the first display.  It always returns a display.
C21_DisplaySelection ==
    chosen # 0 =>
        /\ chosen \in 1..Len(displays)
        /\ chosen = IF Len(displays) = 1 THEN 1
                    ELSE IF Hits # {} THEN Least(Hits)
                    ELSE IF Origins # {} THEN Least(Origins)
                    ELSE 1

\* the pointer on the far edge of the second display, the only one that
\* contains it, with the first display at the origin
C21_Witness ==
    /\ Len(displays) >= 2
    /\ chosen = 2
    /\ Hits = {2}
    /\ Origins = {1}
    /\ mouse[1] = ParseFloat(displays[2].X) + DisplaySide

(***************************************************************************)
(* Properties of the listening loop and of the setup under failures.       *)
(***************************************************************************)
\* C24: when shutdownHotkey is called while the listening loop is running,
\* the loop is left in the end and stays left (or the process has ended); a
\* listener that has returned never runs again, and once the handle is
\* cleared the loop is never entered again.
C24_ShutdownStopsListener ==
    /\ (ListenerInLoop /\ hist.inLoop # {}) ~> [](~ListenerInLoop \/ ~alive)
    /\ [][/\ listener.pc = "returned" => listener'.pc = "returned"
          /\ (hotkeyInstance = "nil" /\ hist.found # {} /\ ~ListenerInLoop)
                 => ~ListenerInLoop']_vars

C24_Witness ==
    /\ listener.pc = "returned"
    /\ hist.inLoop # {}
    /\ hist.signals = 1
    /\ hotkeyShutdown = 0
    /\ hotkeyInstance = "nil"
    /\ alive

\* C25: a panic inside the activation handler leaves the loop running (it
\* goes round to its select, no restart is scheduled, status and handle are
\* untouched), and the key-down after it that comes 200ms or more after the
\* last accepted activation runs the handler body; when that one does not
\* panic the window is shown on top.
C25_HandlerPanicKeepsLoop ==
    /\ lastEvent.panicked =>
           /\ listener.pc \in {"select", "waiting"}
           /\ hotkeyStatus = HotkeyStatusEnabled
           /\ hotkeyInstance = "hk"
           /\ setup.pc = "inListener"
    /\ (/\ lastEvent.kind = "keydown"
        /\ lastEvent.prevPanicked
        /\ lastEvent.time - lastEvent.acceptedBefore >= DebounceMs) =>
           /\ lastEvent.ran
           /\ ~lastEvent.panicked => lastEvent.topAfter /\ lastHotkeyTime = lastEvent.time

C25_Witness ==
    /\ lastEvent.kind = "keydown"
    /\ lastEvent.prevPanicked
    /\ lastEvent.time - lastEvent.acceptedBefore = DebounceMs
    /\ lastEvent.ran
    /\ ~lastEvent.panicked
    /\ listener.pc = "waiting"

\* C26: a panic of the listening loop with the handle stored always
\* schedules a restart, and, as long as shutdownHotkey is not called, the
\* loop is waiting again on the same handle in the end; so after the
\* second panic as after the first.
C26_PanicRestartsListener ==
    /\ [][hist'.panics > hist.panics =>
              /\ listener'.pc = "restartWait"
              /\ hotkeyInstance' = hotkeyInstance
              /\ hotkeyStatus' = hotkeyStatus]_vars
    /\ (listener.pc = "restartWait" /\ NoShutdownCalled)
           ~> ((listener.pc = "waiting" /\ hotkeyInstance = "hk") \/ ~NoShutdownCalled)

C26_Witness ==
    /\ hist.panics = 2
    /\ hist.listeners = 3
    /\ listener.pc = "waiting"
    /\ hotkeyInstance = "hk"
    /\ NoShutdownCalled

\* C27: lastHotkeyTime is left unchanged by a debounced key-down and by an
\* accepted key-down whose handler panics.
C27_TimestampOnlyOnSuccess ==
    (lastEvent.kind = "keydown" /\ (~lastEvent.ran \/ lastEvent.panicked)) =>
        lastHotkeyTime = lastEvent.lastBefore

\* C28: hk.Register is called only while the 30 seconds of the setup have
\* not run out; a step of setupHotkey at the top of the loop with the time
\* run out, or a backoff wait that would pass the 30 seconds, ends the
\* setup with the status Failed (the wait is cut at the 30 seconds); after
\* such an end no handle is stored, the listener is not started and
\* setupHotkey has returned.
C28_TimeoutStopsRegistration ==
    /\ [](hist.exit \in {"registerTimeout", "backoffTimeout"} =>
              /\ hotkeyStatus = HotkeyStatusFailed
              /\ setup.pc = "returned"
              /\ ~ListenerRan
              /\ hotkeyInstance = "nil"
              /\ elapsed >= SetupTimeoutMs
              /\ \A i \in 1..Len(hist.registers) : hist.registers[i] = "err")
    /\ [][/\ hist'.registers # hist.registers => elapsed < SetupTimeoutMs
          /\ (setup.pc = "register" /\ elapsed >= SetupTimeoutMs /\ setup' # setup) =>
                 /\ hist'.exit = "registerTimeout"
                 /\ hotkeyStatus' = HotkeyStatusFailed
          /\ (setup.pc = "backoff" /\ setup' # setup) =>
                 /\ elapsed' <= SetupTimeoutMs
                 /\ elapsed + setup.retryDelay > SetupTimeoutMs =>
                        /\ hist'.exit = "backoffTimeout"
                        /\ elapsed' = SetupTimeoutMs
                        /\ hist'.waits = hist.waits
                        /\ hotkeyStatus' = HotkeyStatusFailed]_vars

C28_Witness ==
    /\ hist.exit = "backoffTimeout"
    /\ hist.registers = <<"err", "err">>
    /\ hist.waits = <<RetryDelayMs>>
    /\ hist.cutWaits = 1
    /\ elapsed = SetupTimeoutMs
    /\ hotkeyStatus = HotkeyStatusFailed

\* C29: when the permission check panics, false is what setupHotkey
\* receives: no registration is attempted, no handle stored, no listener
\* started, the process stays alive, and the return after receiving it is
\* that of 'not granted' (status Disabled by way of Pending, one permission
\* request scheduled).
C29_CheckPanicIsNotGranted ==
    perm.result = "panic" =>
        /\ hist.registers = <<>>
        /\ hotkeyInstance = "nil"
        /\ ~ListenerRan
        /\ NoShutdownCalled => alive
        /\ (setup.pc = "permWait" /\ perm.pc = "done") => perm.chan = "false"
        /\ hist.exit \in {"none", "notGranted", "permTimeout"}
        /\ hist.exit = "notGranted" =>
               /\ hotkeyStatus = HotkeyStatusDisabled
               /\ hist.statuses = <<HotkeyStatusDisabled, HotkeyStatusPending,
                                    HotkeyStatusDisabled>>
               /\ hist.requests = 1
               /\ request \in {"sleeping", "done"}
               /\ setup.pc = "returned"

C29_Witness ==
    /\ perm.result = "panic"
    /\ hist.exit = "notGranted"
    /\ hotkeyStatus = HotkeyStatusDisabled
    /\ request = "sleeping"
    /\ alive

(***************************************************************************)
(* Properties of the cancel token, the collaborator errors and the buffer. *)
(***************************************************************************)
\* C31: "Escape" in Main mode requests exactly one window hide, logs
\* nothing, leaves numberBuffer empty and currentMode Main, and calls
\* neither a mover nor ToggleMute, whatever was in the buffer.
C31_EscapeInMainHides ==
    (last.key = "Escape" /\ last.mode = AppModeMain) =>
        /\ last.fx.hides = 1
        /\ last.fx.logs = <<>>
        /\ last.fx.mover = "none"
        /\ last.fx.calls = 0
        /\ last.fx.mute = 0
        /\ last.fx.errs = 0
        /\ numberBuffer = <<>>
        /\ currentMode = AppModeMain

C31_Witness ==
    /\ last.key = "Escape"
    /\ last.mode = AppModeMain
    /\ last.buf # <<>>
    /\ last.fx.hides = 1
    /\ numberBuffer = <<>>

\* C32: after every call the log holds one error-level entry for every
\* error a collaborator call returned (MoveToSpace, MoveToDisplay,
\* ToggleMute).
ErrorsLogged(fx) == Len(SelectSeq(fx.logs, LAMBDA l : l = LogLevelError))

C32_CollaboratorErrorsLogged ==
    ErrorsLogged(last.fx) = last.fx.errs

\* C33: a buffer built from digit tokens only holds ASCII digits only, and
\* numberBuffer is empty after every call whose token is not taken as a
\* number, in every mode, for tokens with and without a meaning there.
AsciiDigits == {DigitChars[j] : j \in 1..10}

C33_BufferDigitsOrEmpty ==
    /\ (\A i \in 1..Len(typed) : typed[i] \in AsciiDigits) =>
           \A i \in 1..Len(numberBuffer) : numberBuffer[i] \in AsciiDigits
    /\ CommandCall => numberBuffer = <<>>

C33_Witness ==
    /\ last.key = "h"
    /\ last.mode = AppModeMain
    /\ last.buf = <<"1", "2">>
    /\ last.fx.logs = <<LogLevelWarn>>
    /\ numberBuffer = <<>>

C35_ConcurrentShutdownUnregistersOnce ==
    /\ hist.unregisters <= 1
    /\ \A c \in Callers : sd[c] # "panicked"

\* C36: a stored handle implies the status Enabled, in every state, whatever
\* the interleaving of setupHotkey and the calls of shutdownHotkey.
C36_HandleImpliesEnabled ==
    hotkeyInstance # "nil" => hotkeyStatus = HotkeyStatusEnabled

C36_Witness ==
    /\ hotkeyInstance = "hk"
    /\ hotkeyStatus = HotkeyStatusEnabled
    /\ \E c \in Callers : sd[c] = "clear"
    /\ \E c \in Callers : sd[c] = "signal"

\* C37: no call of startHotkeyListener is made beside a running one: a
\* restart goroutine is asleep exactly while the panicked call has ended
\* and its successor has not begun, every panic of the loop starts exactly
\* one, setupHotkey makes its call with no listener about, the loop is
\* entered only from the handle test, and a call that finds the handle
\* cleared returns without entering the loop or starting a restart.
C37_OneListenerLoop ==
    /\ [](/\ hist.beside = 0
          /\ hist.pending <= 1
          /\ hist.pending = 1 <=> listener.pc = "restartWait"
          /\ setup.pc \in {"store", "afterLoop"} => listener.pc = "none")
    /\ [][/\ (listener.pc \in {"select", "waiting"} /\ listener'.pc = "restartWait") =>
                 hist'.pending = hist.pending + 1
          /\ hist'.listeners > hist.listeners =>
                 /\ listener.pc = "enter"
                 /\ listener'.pc = "select"
                 /\ hotkeyInstance # "nil"
          /\ (listener.pc = "enter" /\ hotkeyInstance = "nil" /\ listener' # listener) =>
                 /\ listener'.pc = "returned"
                 /\ hist'.listeners = hist.listeners
                 /\ hist'.pending = hist.pending]_vars

C37_Witness ==
    /\ listener = [pc |-> "returned", bySetup |-> FALSE]
    /\ hotkeyInstance = "nil"
    /\ hotkeyShutdown = 1
    /\ hist.listeners = 1
    /\ hist.pending = 0
    /\ alive

\* C38: once a call of shutdownHotkey that found the handle has returned,
\* no activation handler runs.
C38_NoHandlerAfterShutdown ==
    ~hist.late

\* C39: once a call of shutdownHotkey has returned during the setup, with
\* the status Pending, the status is never Enabled and the listening loop
\* never runs.
C39_EarlyShutdownStopsSetup ==
    hist.early => (hotkeyStatus # HotkeyStatusEnabled /\ ~ListenerInLoop)

\* C40: the permission goroutine sends exactly one value, finds the channel
\* empty when it comes to send, and ends after the send (or with the
\* process), also when setupHotkey has returned on the setup timeout and
\* nobody receives the value.
C40_PermissionGoroutineEnds ==
    /\ [](/\ hist.sends <= 1
          /\ perm.pc = "done" <=> hist.sends = 1
          /\ perm.pc = "sending" => perm.chan = "empty")
    /\ (perm.pc = "sending") ~> (perm.pc = "done" \/ ~alive)

C40_Witness ==
    /\ perm.pc = "done"
    /\ perm.chan # "empty"
    /\ hist.exit = "permTimeout"
    /\ setup.pc = "returned"
    /\ alive

====
